---- MODULE Spec2Model ----
(***************************************************************************)
(* Model of gitporter: the Jira -> GitHub migration orchestrator           *)
(* (Migrator), and the retry/backoff utility (RateLimiter) it relies on.   *)
(*                                                                         *)
(*   SpecRetry : one call of RateLimiter.executeWithRetry                  *)
(*   Spec      : runs of Migrator.migrate over a source issue list         *)
(*   SpecSubtasks : one fault-free run under each subtask configuration    *)
(*   SpecChunk : one call of Migrator.chunkArray                           *)
(*   SpecBatchSize : the same with a batch size of any sign, with fairness *)
(*   SpecSearch : one call of JiraClient.searchIssues                      *)
(*   SpecSummary : one call of Summarizer.summarizeIssuesBatch             *)
(*   SpecAdf   : one call of MarkdownConverter.toMarkdown on a document    *)
(*   SpecStatus : one call of StatusMapper.mapStatus                       *)
(*   SpecPaging : one call of JiraClient.getAllIssues                      *)
(*   SpecAttach : one call of GitHubClient.handleAttachments               *)
(***************************************************************************)
EXTENDS Integers, Sequences, FiniteSets, TLC

(***************************************************************************)
(* Bounds                                                                  *)
(***************************************************************************)
\* largest maxRetries a RateLimiter is constructed with in SpecRetry
MaxRetriesBound == 3

(***************************************************************************)
(* RateLimiter (utils.js)                                                  *)
(***************************************************************************)
VARIABLES
  maxRetries,   \* RateLimiter.maxRetries
  baseDelay,    \* RateLimiter.baseDelay (ms)
  attempt,      \* loop variable of executeWithRetry
  fnCalls,      \* number of times fn() has been invoked
  fnErrors,     \* the errors thrown by fn(), in order; the last one is lastError
  delays,       \* the setTimeout(delay) waits, in order
  rlPc,         \* "loop" | "returned" | "thrown"
  rlResult      \* what executeWithRetry returned or threw

rlVars == <<maxRetries, baseDelay, attempt, fnCalls, fnErrors, delays, rlPc, rlResult>>

\* Migrator (migrator.js)
VARIABLES
  jiraResult,    \* what jiraClient.getAllIssues returns for the JQL query, as keys
  subtasks,      \* config.jira.subtasks
  jiraIssues,    \* the issue list fetchJiraIssues returns, as keys
  run,           \* number of migrate() runs started
  dryRun,        \* config.migration.dryRun of the current run
  batchSize,     \* config.migration.batchSize (the same in every run)
  pc,            \* position of migrate() / processIssue()
  mapping,       \* Migrator.mapping (in memory)
  mappingFile,   \* content of mapping.json
  fileExists,    \* whether mapping.json exists
  fileTorn,      \* mapping.json holds a truncated or partly written text
  stats,         \* Migrator.stats
  batchIdx,      \* i of processIssuesBatch (0-based)
  itemIdx,       \* position in the current batch (0-based)
  github,        \* the issues of the destination repository, by number
  repoLabels,    \* the labels of the destination repository
  calls,         \* GitHubClient methods called by the current processIssue
  runCalls,      \* GitHubClient methods called since the current run began
  itemStart,     \* stats and record of the key when processIssue was entered
  faults,        \* failures injected so far
  createAttempt, \* attempt of the executeWithRetry inside createIssue
  issueState,    \* issueData.state of the issue being created
  existingIssue, \* result of findExistingIssue (0 for null)
  githubIssue,   \* number of the issue convertAndCreateIssue returned (0: none)
  commentsLeft,  \* comments of the current issue still to migrate
  failure,       \* the call whose failure the current processIssue logged and
                 \* went on from ("none" if there was none)
  order,         \* the keys processIssue was called with in this run, in order
  finished,      \* number of processIssue calls of this run that have returned
  writes,        \* number of completed writes of mapping.json since the last
                 \* run began
  thrown         \* what migrate() rejected with ("none": it has not rejected)

migVars == <<jiraResult, subtasks, repoLabels, jiraIssues, run, dryRun, batchSize, pc, mapping,
             mappingFile, fileExists, fileTorn, stats, batchIdx, itemIdx, github,
             calls, runCalls, itemStart, faults, createAttempt, issueState,
             existingIssue, githubIssue, commentsLeft, failure, order, finished,
             writes, thrown>>

\* Migrator.chunkArray (migrator.js), run on its own
VARIABLES
  chArray,       \* the argument array
  chSize,        \* the argument size
  chI,           \* the loop variable i
  chunks         \* the local chunks

chVars == <<chArray, chSize, chI, chunks>>

\* JiraClient.searchIssues (jiraClient.js), run on its own
VARIABLES
  responses      \* the HTTP statuses the search POST was answered with, in
                 \* order (NoStatus: no response arrived; 200: success)

\* Summarizer.summarizeIssuesBatch (summarizer.js) as migrate() calls it
VARIABLES
  sumIssues,     \* the argument jiraIssues (issuesToSummarize), as 1..n
  concurrency,   \* options.concurrency
  sumDelay,      \* options.delay (ms)
  sumI,          \* the loop variable i (0-based)
  outstanding,   \* issues whose summarizeJiraIssue promise has not settled
  settled,       \* issues whose summarizeJiraIssue promise has settled
  summaries,     \* the keys of the local summaries
  sumWaits,      \* number of delays waited between chunks
  sumPc,         \* "idle" | "chunk" | "all" | "delay" | "processIssuesBatch"
  sumProcessed   \* processIssue calls made by processIssuesBatch afterwards

sumVars == <<sumIssues, concurrency, sumDelay, sumI, outstanding, settled,
             summaries, sumWaits, sumPc, sumProcessed>>

\* MarkdownConverter.toMarkdown (utils.js) on a description, as
\* buildGitHubBody calls it
VARIABLES
  adfDoc,        \* fields.description: an ADF document
  adfResult,     \* what toMarkdown returned or threw
  adfPc          \* "idle" | "toMarkdown" | "converted" | "createIssue" | "error"

adfVars == <<adfDoc, adfResult, adfPc>>

\* StatusMapper.mapStatus (utils.js), run on its own
VARIABLES
  statusMapping, \* StatusMapper.mapping (config.migration.statusMapping)
  statusName,    \* the argument jiraStatus
  statusResult   \* what mapStatus returned ("": it has not returned)

stVars == <<statusMapping, statusName, statusResult>>

\* JiraClient.getAllIssues (jiraClient.js) against a paging search endpoint
VARIABLES
  pgTotal,       \* `total`: the issues matching the JQL are 1..pgTotal
  pgBatchSize,   \* options.batchSize
  pgReported,    \* the maxResults value the endpoint's responses carry
  pgPageLen,     \* the most issues the endpoint puts in one page
  pgStartAt,     \* the local startAt
  pgAllIssues,   \* the local allIssues
  pgHasMore,     \* the local hasMore
  pgPc           \* "idle" | "while" | "returned"

pgVars == <<pgTotal, pgBatchSize, pgReported, pgPageLen, pgStartAt,
            pgAllIssues, pgHasMore, pgPc>>

\* GitHubClient.handleAttachments (githubClient.js), as buildGitHubBody
\* calls it
VARIABLES
  atList,        \* the argument attachments (fields.attachment)
  atStrategy,    \* the argument strategy (config.migration.attachmentStrategy)
  atI,           \* attachments the for loop has handled
  atText,        \* the reference lines added to attachmentText
  atCount,       \* stats.attachments
  atPc           \* "idle" | "for" | "returned" | "body" | "error"

atVars == <<atList, atStrategy, atI, atText, atCount, atPc>>

utilVars == <<responses, sumVars, adfVars, stVars, pgVars, atVars>>

Range(seq) == {seq[n] : n \in 1..Len(seq)}

\* HTTP statuses an error can carry; 0 stands for an error with no response
NoStatus == 0
Statuses == {NoStatus, 400, 403, 404, 429, 500, 503}

\* an error thrown by fn(): its response status, whether its message holds
\* 'rate limit' / 'too many requests', and the call that threw it
ErrorsOfCall(n) == [status : Statuses, rateMsg : BOOLEAN, id : {n}]

NoResult == [kind |-> "none"]

\* isRateLimit
IsRateLimit_NoMessage(error) == error.status = 429
IsRateLimit(error) == error.status = 429 \/ error.rateMsg

\* !isRateLimit && error.response?.status < 500   (undefined < 500 is false)
IsClientError_Below400(error) ==
  ~IsRateLimit(error) /\ error.status # NoStatus /\ error.status < 400
IsClientError(error) ==
  ~IsRateLimit(error) /\ error.status # NoStatus /\ error.status < 500

\* this.baseDelay * Math.pow(2, attempt)
Delay_Linear(base, att) == base * (att + 1)
Delay(base, att) == base * (2 ^ att)

\* the catch block's two `break`s: the last attempt, or a client error
GivesUp(att, max, error) == att = max \/ IsClientError(error)

\* new RateLimiter(): maxRetries = 3, baseDelay = 1000
DefaultMaxRetries == 3
DefaultBaseDelay == 1000

\* the baseDelay values a RateLimiter is constructed with
BaseDelays == {10, DefaultBaseDelay}

RetryInit ==
  /\ maxRetries \in 0..MaxRetriesBound
  /\ baseDelay \in BaseDelays
  /\ attempt = 0
  /\ fnCalls = 0
  /\ fnErrors = <<>>
  /\ delays = <<>>
  /\ rlPc = "loop"
  /\ rlResult = NoResult

\* fn() resolves: `return await fn()`
FnResolves_NoReturn ==
  /\ rlPc = "loop"
  /\ attempt <= maxRetries
  /\ fnCalls' = fnCalls + 1
  /\ rlResult' = [kind |-> "value", v |-> fnCalls + 1]
  /\ attempt' = attempt + 1
  /\ UNCHANGED <<maxRetries, baseDelay, fnErrors, delays, rlPc>>
  /\ UNCHANGED <<chVars, utilVars, migVars>>
FnResolves ==
  /\ rlPc = "loop"
  /\ attempt <= maxRetries
  /\ fnCalls' = fnCalls + 1
  /\ rlResult' = [kind |-> "value", v |-> fnCalls + 1]
  /\ rlPc' = "returned"
  /\ UNCHANGED <<maxRetries, baseDelay, attempt, fnErrors, delays>>
  /\ UNCHANGED <<chVars, utilVars, migVars>>

\* fn() rejects with error: the catch block, up to the next loop iteration
Caught(error) ==
  /\ fnCalls' = fnCalls + 1
  /\ fnErrors' = Append(fnErrors, error)
  /\ IF GivesUp(attempt, maxRetries, error)
     THEN /\ rlPc' = "thrown"
          /\ rlResult' = [kind |-> "error", e |-> error]
          /\ UNCHANGED <<attempt, delays>>
     ELSE /\ delays' = Append(delays, Delay(baseDelay, attempt))
          /\ attempt' = attempt + 1
          /\ UNCHANGED <<rlPc, rlResult>>
  /\ UNCHANGED <<maxRetries, baseDelay>>

FnRejects ==
  /\ rlPc = "loop"
  /\ attempt <= maxRetries
  /\ \E error \in ErrorsOfCall(fnCalls + 1) : Caught(error)
  /\ UNCHANGED <<chVars, utilVars, migVars>>

\* the error searchIssues' own catch block throws on for a failed POST: a
\* failure with a response becomes `new Error(errorMessage)`, which has no
\* response field and whose message quotes the status and Jira's
\* errorMessages; a failure with no response is thrown as it is
enhancedError(status, rateMsg, n) ==
  [status |-> NoStatus, rateMsg |-> rateMsg, id |-> n]

\* the search POST is answered 200: the fn of searchIssues returns the page
SearchResolves ==
  /\ rlPc = "loop"
  /\ attempt <= maxRetries
  /\ responses' = Append(responses, 200)
  /\ fnCalls' = fnCalls + 1
  /\ rlResult' = [kind |-> "value", v |-> fnCalls + 1]
  /\ rlPc' = "returned"
  /\ UNCHANGED <<maxRetries, baseDelay, attempt, fnErrors, delays>>
  /\ UNCHANGED <<chVars, migVars, sumVars, adfVars, stVars, pgVars, atVars>>

\* the search POST fails: the fn of searchIssues throws, executeWithRetry
\* catches
SearchRejects ==
  /\ rlPc = "loop"
  /\ attempt <= maxRetries
  /\ \E status \in Statuses, rateMsg \in BOOLEAN :
       /\ responses' = Append(responses, status)
       /\ Caught(enhancedError(status, rateMsg, fnCalls + 1))
  /\ UNCHANGED <<chVars, migVars, sumVars, adfVars, stVars, pgVars, atVars>>

\* no search has been made
SearchIdle == responses = <<>>

\* the RateLimiter of a client between two calls
RetryIdle ==
  /\ maxRetries = DefaultMaxRetries
  /\ baseDelay = DefaultBaseDelay
  /\ attempt = 0
  /\ fnCalls = 0
  /\ fnErrors = <<>>
  /\ delays = <<>>
  /\ rlPc = "loop"
  /\ rlResult = NoResult

(***************************************************************************)
(* Migrator (migrator.js) over GitHubClient / JiraClient                   *)
(***************************************************************************)
\* Bounds of the migration model
MaxItems == 2        \* longest source issue list
MaxRuns == 2         \* runs of migrate() in one behaviour
MaxFaults == 2       \* remote / file failures injected in one behaviour
MaxComments == 2     \* most comments Jira returns for an issue
MaxBatchSize == 2    \* largest config.migration.batchSize
MaxChunkLen == 5     \* longest array chunkArray is called with in SpecChunk
MaxChunkSize == 3    \* largest size chunkArray is called with in SpecChunk

\* Jira issue keys; X-1 is a substring of X-10
K1 == <<"X", "-", "1">>
K10 == <<"X", "-", "1", "0">>
K2 == <<"X", "-", "2">>
Keys == {K1, K10, K2}

\* the source issues: fields.status.name, fields.issuetype.subtask and the
\* number of comments of each
JiraStatus(key) == IF key = K10 THEN "Done" ELSE "To Do"
IsSubtask(key) == key \in {K10, K2}
JiraComments(key) == IF key = K1 THEN MaxComments ELSE IF key = K10 THEN 1 ELSE 0

\* StatusMapper.mapStatus with no explicit mapping, on the statuses above
mapStatus(jiraStatus) == IF jiraStatus = "Done" THEN "closed" ELSE "open"

\* the issue lists the Jira query can return: distinct keys, in any order
RECURSIVE SeqsUpTo(_, _)
SeqsUpTo(S, n) ==
  IF n = 0 THEN {<<>>}
  ELSE LET shorter == SeqsUpTo(S, n - 1)
       IN shorter \cup {Append(q, x) : q \in shorter, x \in S}
IssueLists ==
  {q \in SeqsUpTo(Keys, MaxItems) :
     \A a, b \in 1..Len(q) : a # b => q[a] # q[b]}

\* config.jira.subtasks: hasFilter is FALSE when filterByStatus is absent
SubtaskConfigs ==
  [enabled : BOOLEAN, hasFilter : BOOLEAN, filterByStatus : {<<>>, <<"Done">>}]
SubtasksDisabled == [enabled |-> FALSE, hasFilter |-> FALSE, filterByStatus |-> <<>>]

\* Array.prototype.filter, keeping the order of the array
RECURSIVE SelectSeqOf(_, _)
SelectSeqOf(q, S) ==
  IF q = <<>> THEN <<>>
  ELSE IF Head(q) \in S THEN <<Head(q)>> \o SelectSeqOf(Tail(q), S)
  ELSE SelectSeqOf(Tail(q), S)

\* filterIssuesByType: whether a subtask passes the status filter
PassesFilter_EmptyKeepsNone(key, cfg) ==
  \/ ~cfg.hasFilter
  \/ \E n \in 1..Len(cfg.filterByStatus) : cfg.filterByStatus[n] = JiraStatus(key)
PassesFilter(key, cfg) ==
  \/ ~cfg.hasFilter
  \/ Len(cfg.filterByStatus) = 0
  \/ \E n \in 1..Len(cfg.filterByStatus) : cfg.filterByStatus[n] = JiraStatus(key)
\* filterIssuesByType(issues, config).parentIssues
parentIssues(issues, cfg) ==
  SelectSeqOf(issues, {k \in Keys : ~IsSubtask(k) \/ ~cfg.enabled})
\* filterIssuesByType(issues, config).subtasks
keptSubtasks(issues, cfg) ==
  SelectSeqOf(issues, {k \in Keys : IsSubtask(k) /\ cfg.enabled /\ PassesFilter(k, cfg)})
\* filterIssuesByType(issues, config).allIssues
allIssues(issues, cfg) == parentIssues(issues, cfg) \o keptSubtasks(issues, cfg)

\* String.prototype.includes on character sequences
Includes(text, pat) ==
  \E s \in 1..(Len(text) - Len(pat) + 1) : SubSeq(text, s, s + Len(pat) - 1) = pat

\* buildGitHubTitle: `[${jiraIssue.key}] ${sanitized}`
buildGitHubTitle(key) == <<"[">> \o key \o <<"]", " ">>
\* buildIssueMetadata: the body names the Jira key in its metadata table
buildIssueMetadata(key) == <<"|", " ">> \o key \o <<" ", "|">>

\* html_url of issue number n
HtmlUrl(n) == <<"issues", n>>

\* mapping records; NoRecord stands for an absent key
NoRecord ==
  [status |-> "none", githubNumber |-> 0, githubUrl |-> <<>>, migratedAt |-> 0,
   error |-> ""]
MigratedRecord(n, at) ==
  [status |-> "migrated", githubNumber |-> n, githubUrl |-> HtmlUrl(n),
   migratedAt |-> at, error |-> ""]
ExistingRecord(n, at) ==
  [status |-> "existing", githubNumber |-> n, githubUrl |-> HtmlUrl(n),
   migratedAt |-> at, error |-> ""]
ErrorRecord(msg, at) ==
  [status |-> "error", githubNumber |-> 0, githubUrl |-> <<>>, migratedAt |-> at,
   error |-> msg]
EmptyMapping == [k \in Keys |-> NoRecord]

ZeroStats ==
  [processed |-> 0, created |-> 0, skipped |-> 0, errors |-> 0, comments |-> 0,
   attachments |-> 0]
Inc(st, f) == [st EXCEPT ![f] = @ + 1]

\* errors a remote request (or a call that already went through its own
\* executeWithRetry) ends with: a client error and a server error
RemoteErrors ==
  {[status |-> 404, rateMsg |-> FALSE, id |-> 0],
   [status |-> 503, rateMsg |-> FALSE, id |-> 0]}
Message(error) == IF error.status = 404 THEN "Not Found" ELSE "Service Unavailable"

\* chunkArray(array, size), for size >= 1
RECURSIVE ChunkFrom(_, _, _)
ChunkFrom(array, size, i) ==
  IF i < Len(array)
  THEN <<SubSeq(array, i + 1, IF i + size < Len(array) THEN i + size ELSE Len(array))>>
       \o ChunkFrom(array, size, i + size)
  ELSE <<>>
chunkArray(array, size) == ChunkFrom(array, size, 0)

batches == chunkArray(jiraIssues, batchSize)
batch == batches[batchIdx + 1]
\* jiraIssue.key of the issue processIssue is working on
jiraKey == batch[itemIdx + 1]

SetMax(S) == CHOOSE x \in S : \A y \in S : y <= x

\* findExistingIssue without a search error: the search results (newest
\* first) scanned for a title or body that includes the key
Matches(key) ==
  {n \in 1..Len(github) :
     \/ Includes(buildGitHubTitle(github[n].jiraKey), key)
     \/ Includes(buildIssueMetadata(github[n].jiraKey), key)}
findExistingIssue(key) == IF Matches(key) = {} THEN 0 ELSE SetMax(Matches(key))

\* `mapping[jiraKey] && status === 'migrated'`, `... === 'existing'`
AlreadyMigrated_OnlyMigrated(rec) == rec.status = "migrated"
AlreadyMigrated_AnyRecord(rec) == rec.status # "none"
AlreadyMigrated(rec) == rec.status = "migrated" \/ rec.status = "existing"

\* generateSummaries: `jiraIssues.filter(issue => !this.mapping[issue.key])`
issuesToSummarize(issues, table) ==
  SelectSeqOf(issues, {k \in Keys : table[k] = NoRecord})

\* the counters after processIssue skipped an issue that has a record:
\* stats.processed++ at its entry, stats.skipped++ before the return
SkipCounted_SkippedOnly(st) == Inc(st, "skipped")
SkipCounted(st) == Inc(Inc(st, "processed"), "skipped")

NoItemStart == [key |-> <<>>, stats |-> ZeroStats, rec |-> NoRecord]

\* no migrate() has started: no mapping.json, an empty repository
NotStarted ==
  /\ jiraIssues = <<>>
  /\ dryRun = FALSE
  /\ pc = "idle"
  /\ mapping = EmptyMapping
  /\ mappingFile = EmptyMapping
  /\ fileExists = FALSE
  /\ fileTorn = FALSE
  /\ stats = ZeroStats
  /\ batchIdx = 0
  /\ itemIdx = 0
  /\ github = <<>>
  /\ repoLabels = {}
  /\ calls = <<>>
  /\ runCalls = {}
  /\ itemStart = NoItemStart
  /\ createAttempt = 0
  /\ issueState = "open"
  /\ existingIssue = 0
  /\ githubIssue = 0
  /\ commentsLeft = 0
  /\ failure = "none"
  /\ order = <<>>
  /\ finished = 0
  /\ writes = 0
  /\ thrown = "none"

\* subtasks are not enabled; the query result and the batch size are any
MigratorInit ==
  /\ NotStarted
  /\ jiraResult \in IssueLists
  /\ subtasks = SubtasksDisabled
  /\ batchSize \in 1..MaxBatchSize
  /\ run = 0
  /\ faults = 0

\* the catch block of migrate(): the error is thrown on to the caller
Abort_Swallowed(cause) == thrown' = cause /\ pc' = pc
Abort(cause) == thrown' = cause /\ pc' = "failed"

\* a remote call or file operation fails
Fault == faults < MaxFaults /\ faults' = faults + 1

\* new Migrator(config) and the start of migrate(); --dry-run is chosen per run
StartRun ==
  /\ pc \in {"idle", "done", "failed", "crashed"}
  /\ run < MaxRuns
  /\ run' = run + 1
  /\ dryRun' \in BOOLEAN
  /\ mapping' = EmptyMapping
  /\ stats' = ZeroStats
  /\ batchIdx' = 0
  /\ itemIdx' = 0
  /\ calls' = <<>>
  /\ runCalls' = {}
  /\ itemStart' = NoItemStart
  /\ createAttempt' = 0
  /\ issueState' = "open"
  /\ existingIssue' = 0
  /\ githubIssue' = 0
  /\ commentsLeft' = 0
  /\ failure' = "none"
  /\ order' = <<>>
  /\ finished' = 0
  /\ writes' = 0
  /\ thrown' = "none"
  /\ jiraIssues' = <<>>
  /\ pc' = "testConnections"
  /\ UNCHANGED <<rlVars, chVars, utilVars, jiraResult, subtasks, repoLabels, batchSize, mappingFile,
                 fileExists, fileTorn, github, faults>>

\* testConnections: Jira, then GitHub user, then GitHub repository
testConnections ==
  /\ pc = "testConnections"
  /\ \/ /\ Fault
        /\ Abort("jiraClient.testAuthentication")
        /\ UNCHANGED runCalls
     \/ /\ Fault
        /\ Abort("githubClient.testAuthentication")
        /\ runCalls' = runCalls \cup {"testAuthentication"}
     \/ /\ Fault
        /\ Abort("githubClient.testRepositoryAccess")
        /\ runCalls' = runCalls \cup {"testAuthentication", "testRepositoryAccess"}
     \/ /\ pc' = "loadMapping"
        /\ runCalls' = runCalls \cup {"testAuthentication", "testRepositoryAccess"}
        /\ UNCHANGED <<faults, thrown>>
  /\ UNCHANGED <<rlVars, chVars, utilVars, jiraResult, subtasks, repoLabels, jiraIssues, run, dryRun,
                 batchSize, mapping, mappingFile, fileExists, fileTorn, stats,
                 batchIdx, itemIdx, github, calls, itemStart, createAttempt,
                 issueState, existingIssue, githubIssue, commentsLeft, failure,
                 order, finished, writes>>

\* loadMapping: readJsonFile gives null for a missing file and throws what
\* readFile or JSON.parse throws otherwise
loadMapping ==
  /\ pc = "loadMapping"
  /\ \/ /\ Fault
        /\ Abort("readFile")
        /\ UNCHANGED mapping
     \/ /\ fileExists /\ fileTorn
        /\ Abort("JSON.parse")
        /\ UNCHANGED <<mapping, faults>>
     \/ /\ ~(fileExists /\ fileTorn)
        /\ mapping' = IF fileExists THEN mappingFile ELSE mapping
        /\ pc' = "fetchJiraIssues"
        /\ UNCHANGED <<faults, thrown>>
  /\ UNCHANGED <<rlVars, chVars, utilVars, jiraResult, subtasks, repoLabels, jiraIssues, run, dryRun,
                 batchSize, mappingFile, fileExists, fileTorn, stats, batchIdx,
                 itemIdx, github, calls, runCalls, itemStart, createAttempt,
                 issueState, existingIssue, githubIssue, commentsLeft, failure,
                 order, finished, writes>>

\* fetchJiraIssues: getAllIssues, then filterIssuesByType(...).allIssues; and
\* migrate()'s early return for an empty list
fetchJiraIssues ==
  /\ pc = "fetchJiraIssues"
  /\ \/ /\ Fault
        /\ Abort("jiraClient.getAllIssues")
        /\ UNCHANGED jiraIssues
     \/ /\ jiraIssues' = allIssues(jiraResult, subtasks)
        /\ pc' = IF Len(jiraIssues') = 0 THEN "done" ELSE "batch"
        /\ UNCHANGED <<faults, thrown>>
  /\ UNCHANGED <<rlVars, chVars, utilVars, jiraResult, subtasks, repoLabels, run, dryRun, batchSize,
                 mapping, mappingFile, fileExists, fileTorn, stats, batchIdx,
                 itemIdx, github, calls, runCalls, itemStart, createAttempt,
                 issueState, existingIssue, githubIssue, commentsLeft, failure,
                 order, finished, writes>>

\* the catch block of processIssue
Catch_Uncounted(key, msg) ==
  /\ mapping' = [mapping EXCEPT ![key] = ErrorRecord(msg, run)]
  /\ pc' = "itemDone"
  /\ UNCHANGED stats
Catch_Rethrown(key, msg) ==
  /\ stats' = Inc(stats, "errors")
  /\ mapping' = [mapping EXCEPT ![key] = ErrorRecord(msg, run)]
  /\ pc' = "failed"
Catch(key, msg) ==
  /\ stats' = Inc(stats, "errors")
  /\ mapping' = [mapping EXCEPT ![key] = ErrorRecord(msg, run)]
  /\ pc' = "itemDone"

\* processIssue entered from the batch loop: the checks on the mapping record
processIssue ==
  /\ pc = "batch"
  /\ batchIdx < Len(batches)
  /\ itemIdx < Len(batch)
  /\ itemStart' = [key |-> jiraKey, stats |-> stats, rec |-> mapping[jiraKey]]
  /\ calls' = <<>>
  /\ existingIssue' = 0
  /\ githubIssue' = 0
  /\ failure' = "none"
  /\ order' = Append(order, jiraKey)
  /\ IF AlreadyMigrated(mapping[jiraKey])
     THEN /\ stats' = SkipCounted(stats)
          /\ pc' = "itemDone"
     ELSE /\ stats' = Inc(stats, "processed")
          /\ pc' = "findExisting"
  /\ UNCHANGED <<rlVars, chVars, utilVars, jiraResult, subtasks, repoLabels, thrown, jiraIssues, run, dryRun,
                 batchSize, mapping, mappingFile, fileExists, fileTorn, batchIdx,
                 itemIdx, github, runCalls, faults, createAttempt, issueState,
                 commentsLeft, finished, writes>>

\* what processIssue does with the result n of findExistingIssue
AfterSearch_DryRunFirst(n) ==
  /\ existingIssue' = n
  /\ IF dryRun
     THEN /\ stats' = Inc(stats, "created")
          /\ pc' = "itemDone"
          /\ UNCHANGED mapping
     ELSE IF n # 0
     THEN /\ mapping' = [mapping EXCEPT ![jiraKey] = ExistingRecord(n, run)]
          /\ stats' = Inc(stats, "skipped")
          /\ pc' = "itemDone"
     ELSE /\ pc' = "convert"
          /\ UNCHANGED <<mapping, stats>>
AfterSearch_NoDryRun(n) ==
  /\ existingIssue' = n
  /\ IF n # 0
     THEN /\ mapping' = [mapping EXCEPT ![jiraKey] = ExistingRecord(n, run)]
          /\ stats' = Inc(stats, "skipped")
          /\ pc' = "itemDone"
     ELSE /\ pc' = "convert"
          /\ UNCHANGED <<mapping, stats>>
AfterSearch(n) ==
  /\ existingIssue' = n
  /\ IF n # 0
     THEN /\ mapping' = [mapping EXCEPT ![jiraKey] = ExistingRecord(n, run)]
          /\ stats' = Inc(stats, "skipped")
          /\ pc' = "itemDone"
     ELSE IF dryRun
     THEN /\ stats' = Inc(stats, "created")
          /\ pc' = "itemDone"
          /\ UNCHANGED mapping
     ELSE /\ pc' = "convert"
          /\ UNCHANGED <<mapping, stats>>

\* await githubClient.findExistingIssue(jiraKey); a search error gives null
checkExisting ==
  /\ pc = "findExisting"
  /\ calls' = Append(calls, "findExistingIssue")
  /\ runCalls' = runCalls \cup {"searchIssues"}
  /\ \/ /\ Fault
        /\ failure' = "searchIssues"
        /\ AfterSearch(0)
     \/ /\ UNCHANGED <<faults, failure>>
        /\ AfterSearch(findExistingIssue(jiraKey))
  /\ UNCHANGED <<rlVars, chVars, utilVars, jiraResult, subtasks, repoLabels, thrown, jiraIssues, run, dryRun,
                 batchSize, mappingFile, fileExists, fileTorn, batchIdx, itemIdx,
                 github, itemStart, createAttempt, issueState, githubIssue,
                 commentsLeft, order, finished, writes>>

\* LabelMapper.mapLabels on an issue with no mapped type, priority or
\* component: the status label and the migration label
mapLabels(key) ==
  <<IF JiraStatus(key) = "Done" THEN "jira-status:done" ELSE "jira-status:to-do",
    "migrated-from-jira">>

\* ensureLabelsExist(labelNames) where createLabel fails for the labels in
\* failed: each failure is logged and the loop goes on
ensureLabelsExist(labelNames, failed) ==
  /\ Cardinality(failed) <= MaxFaults - faults
  /\ faults' = faults + Cardinality(failed)
  /\ repoLabels' = repoLabels \cup (Range(labelNames) \ failed)

\* convertAndCreateIssue up to createIssue: title, body, labels and state are
\* built (which throws on a malformed issue), then ensureLabelsExist
convertIssue ==
  /\ pc = "convert"
  /\ \/ /\ Catch(jiraKey, "conversion failed")
        /\ UNCHANGED <<calls, runCalls, issueState, createAttempt, repoLabels,
                       faults>>
     \/ /\ issueState' = mapStatus(JiraStatus(jiraKey))
        /\ \E failed \in SUBSET Range(mapLabels(jiraKey)) :
             ensureLabelsExist(mapLabels(jiraKey), failed)
        /\ calls' = Append(calls, "ensureLabelsExist")
        /\ runCalls' = runCalls \cup {"createLabel"}
        /\ createAttempt' = 0
        /\ pc' = "createIssue"
        /\ UNCHANGED <<mapping, stats>>
  /\ UNCHANGED <<rlVars, chVars, utilVars, jiraResult, subtasks, thrown, jiraIssues, run, dryRun,
                 batchSize, mappingFile, fileExists, fileTorn, batchIdx, itemIdx,
                 github, itemStart, existingIssue, githubIssue,
                 commentsLeft, failure, order, finished, writes>>

\* the catch block of the executeWithRetry inside createIssue
CreateRejected(error) ==
  IF GivesUp(createAttempt, DefaultMaxRetries, error)
  THEN /\ Catch(jiraKey, Message(error))
       /\ UNCHANGED <<createAttempt, githubIssue>>
  ELSE /\ createAttempt' = createAttempt + 1
       /\ UNCHANGED <<mapping, stats, pc, githubIssue>>

\* createIssue returned issue n: the mapping is recorded
CreateReturned(n) ==
  /\ githubIssue' = n
  /\ mapping' = [mapping EXCEPT ![jiraKey] = MigratedRecord(n, run)]
  /\ pc' = "getComments"
  /\ UNCHANGED <<createAttempt, stats>>

\* a new issue of the repository; comments holds, for each comment on it, the
\* position of the Jira comment it was made from
NewIssue(key) == [jiraKey |-> key, closed |-> FALSE, comments |-> <<>>]
CallsWith(op) == IF createAttempt = 0 THEN Append(calls, op) ELSE calls

\* one attempt of the function createIssue hands to executeWithRetry
createIssue ==
  /\ pc = "createIssue"
  /\ \/ \* octokit.rest.issues.create rejects
        /\ Fault
        /\ runCalls' = runCalls \cup {"createIssue"}
        /\ \E error \in RemoteErrors : CreateRejected(error)
        /\ calls' = CallsWith("createIssue")
        /\ UNCHANGED github
     \/ \* the issue is created and is to stay open
        /\ issueState = "open"
        /\ runCalls' = runCalls \cup {"createIssue"}
        /\ github' = Append(github, NewIssue(jiraKey))
        /\ calls' = CallsWith("createIssue")
        /\ CreateReturned(Len(github) + 1)
        /\ UNCHANGED faults
     \/ \* the issue is created and then closed
        /\ issueState = "closed"
        /\ runCalls' = runCalls \cup {"createIssue", "updateIssueState"}
        /\ github' = Append(github, [NewIssue(jiraKey) EXCEPT !.closed = TRUE])
        /\ calls' = Append(CallsWith("createIssue"), "updateIssueState")
        /\ CreateReturned(Len(github) + 1)
        /\ UNCHANGED faults
     \/ \* the issue is created, updateIssueState rejects
        /\ issueState = "closed"
        /\ Fault
        /\ runCalls' = runCalls \cup {"createIssue", "updateIssueState"}
        /\ github' = Append(github, NewIssue(jiraKey))
        /\ calls' = Append(CallsWith("createIssue"), "updateIssueState")
        /\ \E error \in RemoteErrors : CreateRejected(error)
  /\ UNCHANGED <<rlVars, chVars, utilVars, jiraResult, subtasks, repoLabels, thrown, jiraIssues, run, dryRun,
                 batchSize, mappingFile, fileExists, fileTorn, batchIdx, itemIdx,
                 itemStart, issueState, existingIssue, commentsLeft, failure,
                 order, finished, writes>>

\* the catch block of migrateComments: the failure is logged, processIssue
\* goes on to count the issue as created
CommentsFailed_Rethrown ==
  /\ commentsLeft' = 0
  /\ Catch(jiraKey, "comment failed")
CommentsFailed ==
  /\ commentsLeft' = 0
  /\ stats' = Inc(stats, "created")
  /\ pc' = "itemDone"
  /\ UNCHANGED mapping

\* migrateComments: getComments
getComments ==
  /\ pc = "getComments"
  /\ \/ /\ Fault
        /\ failure' = "getComments"
        /\ CommentsFailed
     \/ /\ UNCHANGED <<faults, failure>>
        /\ commentsLeft' = JiraComments(jiraKey)
        /\ IF JiraComments(jiraKey) = 0
           THEN stats' = Inc(stats, "created") /\ pc' = "itemDone"
           ELSE stats' = stats /\ pc' = "migrateComment"
        /\ UNCHANGED mapping
  /\ UNCHANGED <<rlVars, chVars, utilVars, jiraResult, subtasks, repoLabels, thrown, jiraIssues, run, dryRun,
                 batchSize, mappingFile, fileExists, fileTorn, batchIdx, itemIdx,
                 github, calls, runCalls, itemStart, createAttempt, issueState,
                 existingIssue, githubIssue, order, finished, writes>>

\* `for (const comment of comments)`: the position, in the array getComments
\* returned, of the comment the loop is at
NextComment_Reversed == commentsLeft
NextComment == JiraComments(jiraKey) - commentsLeft + 1

\* migrateComment for the next comment; a failure ends migrateComments
migrateComment ==
  /\ pc = "migrateComment"
  /\ calls' = Append(calls, "createComment")
  /\ runCalls' = runCalls \cup {"createComment"}
  /\ \/ /\ Fault
        /\ failure' = "createComment"
        /\ CommentsFailed
        /\ UNCHANGED github
     \/ /\ UNCHANGED <<faults, failure>>
        /\ github' = [github EXCEPT ![githubIssue].comments = Append(@, NextComment)]
        /\ commentsLeft' = commentsLeft - 1
        /\ IF commentsLeft = 1
           THEN stats' = Inc(Inc(stats, "comments"), "created") /\ pc' = "itemDone"
           ELSE stats' = Inc(stats, "comments") /\ pc' = "migrateComment"
        /\ UNCHANGED mapping
  /\ UNCHANGED <<rlVars, chVars, utilVars, jiraResult, subtasks, repoLabels, thrown, jiraIssues, run, dryRun,
                 batchSize, mappingFile, fileExists, fileTorn, batchIdx, itemIdx,
                 itemStart, createAttempt, issueState, existingIssue,
                 githubIssue, order, finished, writes>>

\* processIssue has returned: the batch loop moves to the next issue
nextIssue ==
  /\ pc = "itemDone"
  /\ itemIdx' = itemIdx + 1
  /\ pc' = "batch"
  /\ calls' = <<>>
  /\ itemStart' = NoItemStart
  /\ createAttempt' = 0
  /\ issueState' = "open"
  /\ existingIssue' = 0
  /\ githubIssue' = 0
  /\ commentsLeft' = 0
  /\ failure' = "none"
  /\ finished' = finished + 1
  /\ UNCHANGED <<rlVars, chVars, utilVars, jiraResult, subtasks, repoLabels, thrown, jiraIssues, run, dryRun,
                 batchSize, mapping, mappingFile, fileExists, fileTorn, stats,
                 batchIdx, github, runCalls, faults, order, writes>>

\* whether the batch loop has gone through every issue of the current batch
BatchDone_EveryIssue == itemIdx >= 1
BatchDone == itemIdx = Len(batch)

\* saveMapping at the end of a batch of processIssuesBatch: writeJsonFile
\* calls fs.writeFile, which opens mapping.json for writing and truncates it
saveMapping ==
  /\ pc = "batch"
  /\ batchIdx < Len(batches)
  /\ BatchDone
  /\ \/ /\ Fault
        /\ Abort("writeFile")
        /\ UNCHANGED <<mappingFile, fileExists, fileTorn>>
     \/ /\ UNCHANGED <<faults, thrown>>
        /\ mappingFile' = EmptyMapping
        /\ fileExists' = TRUE
        /\ fileTorn' = TRUE
        /\ pc' = "writeFile"
  /\ UNCHANGED <<rlVars, chVars, utilVars, jiraResult, subtasks, repoLabels, jiraIssues, run, dryRun,
                 batchSize, mapping, stats, batchIdx, itemIdx, github, calls,
                 runCalls, itemStart, createAttempt, issueState, existingIssue,
                 githubIssue, commentsLeft, failure, order, finished, writes>>

\* migrate(): the saveMapping after processIssuesBatch has returned
finalSave_NoWrite ==
  /\ pc = "finalSave"
  /\ pc' = "done"
  /\ UNCHANGED <<rlVars, chVars, utilVars, jiraResult, subtasks, repoLabels, thrown, jiraIssues, run, dryRun,
                 batchSize, mapping, mappingFile, fileExists, fileTorn, stats,
                 batchIdx, itemIdx, github, calls, runCalls, itemStart, faults,
                 createAttempt, issueState, existingIssue, githubIssue,
                 commentsLeft, failure, order, finished, writes>>
finalSave ==
  /\ pc = "finalSave"
  /\ \/ /\ Fault
        /\ Abort("writeFile")
        /\ UNCHANGED <<mappingFile, fileExists, fileTorn>>
     \/ /\ UNCHANGED <<faults, thrown>>
        /\ mappingFile' = EmptyMapping
        /\ fileExists' = TRUE
        /\ fileTorn' = TRUE
        /\ pc' = "writeFile"
  /\ UNCHANGED <<rlVars, chVars, utilVars, jiraResult, subtasks, repoLabels, jiraIssues, run, dryRun,
                 batchSize, mapping, stats, batchIdx, itemIdx, github, calls,
                 runCalls, itemStart, createAttempt, issueState, existingIssue,
                 githubIssue, commentsLeft, failure, order, finished, writes>>

\* fs.writeFile goes on: the text of the mapping is written out and the
\* write completes, or it fails part way (a full disk) and saveMapping throws.
\* After the write of a batch the batch loop goes on, after the final one
\* migrate() returns the statistics
writeFile ==
  /\ pc = "writeFile"
  /\ \/ /\ Fault
        /\ Abort("writeFile")
        /\ UNCHANGED <<mappingFile, fileTorn, writes, batchIdx, itemIdx>>
     \/ /\ UNCHANGED <<faults, thrown>>
        /\ mappingFile' = mapping
        /\ fileTorn' = FALSE
        /\ writes' = writes + 1
        /\ IF batchIdx < Len(batches)
           THEN /\ batchIdx' = batchIdx + 1
                /\ itemIdx' = 0
                /\ pc' = IF batchIdx + 1 = Len(batches) THEN "finalSave" ELSE "batch"
           ELSE /\ pc' = "done"
                /\ UNCHANGED <<batchIdx, itemIdx>>
  /\ UNCHANGED <<rlVars, chVars, utilVars, jiraResult, subtasks, repoLabels, jiraIssues, run, dryRun,
                 batchSize, mapping, fileExists, stats, github, calls, runCalls,
                 itemStart, createAttempt, issueState, existingIssue, githubIssue,
                 commentsLeft, failure, order, finished>>

\* the process is killed while a run is under way: what it held in memory is
\* gone, mapping.json and the GitHub repository stay as they are. A kill
\* during fs.writeFile leaves the file as far as it was written: in part, or
\* in full
Crash ==
  /\ pc \notin {"idle", "done", "failed", "crashed"}
  /\ pc' = "crashed"
  /\ \/ UNCHANGED <<mappingFile, fileTorn, writes>>
     \/ /\ pc = "writeFile"
        /\ mappingFile' = mapping
        /\ fileTorn' = FALSE
        /\ writes' = writes + 1
  /\ jiraIssues' = <<>>
  /\ mapping' = EmptyMapping
  /\ stats' = ZeroStats
  /\ batchIdx' = 0
  /\ itemIdx' = 0
  /\ calls' = <<>>
  /\ itemStart' = NoItemStart
  /\ createAttempt' = 0
  /\ issueState' = "open"
  /\ existingIssue' = 0
  /\ githubIssue' = 0
  /\ commentsLeft' = 0
  /\ failure' = "none"
  /\ order' = <<>>
  /\ finished' = 0
  /\ UNCHANGED <<rlVars, chVars, utilVars, jiraResult, subtasks, repoLabels, thrown, run, dryRun, batchSize,
                 fileExists, github, runCalls, faults>>

(***************************************************************************)
(* Migrator.chunkArray, step by step                                       *)
(***************************************************************************)
\* the arrays chunkArray is called with: their items are numbered
ChunkItems == 1..2

\* array.slice(from, to): a negative index counts from the end, an index
\* past either end is moved to that end
slice(array, from, to) ==
  LET Index(n) == IF n < 0 THEN (IF Len(array) + n < 0 THEN 0 ELSE Len(array) + n)
                  ELSE IF n > Len(array) THEN Len(array) ELSE n
  IN SubSeq(array, Index(from) + 1, Index(to))

\* `const chunks = []` and `let i = 0`
ChunkInit ==
  /\ chArray \in SeqsUpTo(ChunkItems, MaxChunkLen)
  /\ chSize \in 1..MaxChunkSize
  /\ chI = 0
  /\ chunks = <<>>

\* chunkArray called with any batch size --batch-size can be parsed to
BatchSizeInit ==
  /\ chArray \in SeqsUpTo(ChunkItems, MaxChunkLen)
  /\ chSize \in (-1)..MaxChunkSize
  /\ chI = 0
  /\ chunks = <<>>

\* no chunkArray call is being followed
ChunkIdle ==
  /\ chArray = <<>>
  /\ chSize = 1
  /\ chI = 0
  /\ chunks = <<>>

\* one round of the loop: `chunks.push(array.slice(i, i + size))`, `i += size`
\* (a loop that has pushed more chunks than the longest array has items is
\* not followed further)
ChunkStep_ShortSlice ==
  /\ chI < Len(chArray)
  /\ Len(chunks) <= MaxChunkLen
  /\ chunks' = Append(chunks, slice(chArray, chI, chI + chSize - 1))
  /\ chI' = chI + chSize
  /\ UNCHANGED <<rlVars, migVars, utilVars, chArray, chSize>>
ChunkStep ==
  /\ chI < Len(chArray)
  /\ Len(chunks) <= MaxChunkLen
  /\ chunks' = Append(chunks, slice(chArray, chI, chI + chSize))
  /\ chI' = chI + chSize
  /\ UNCHANGED <<rlVars, migVars, utilVars, chArray, chSize>>

\* `return chunks`
ChunkReturned == chI >= Len(chArray)

(***************************************************************************)
(* Summarizer.summarizeIssuesBatch (summarizer.js), called by              *)
(* Migrator.generateSummaries before processIssuesBatch                    *)
(***************************************************************************)
MaxSummaries == 5    \* most issues summarizeIssuesBatch is called with

\* generateSummaries passes concurrency 2, delay 1500
GenerateConcurrency == 2
GenerateDelay == 1500
\* the defaults of summarizeIssuesBatch: concurrency 3, delay 1000
DefaultConcurrency == 3
DefaultDelay == 1000

\* `const chunks = this.chunkArray(jiraIssues, concurrency)`
sumChunks == chunkArray(sumIssues, concurrency)

\* `const summaries = {}` and the chunks, before the loop
SummaryInit ==
  /\ sumIssues \in {[n \in 1..len |-> n] : len \in 0..MaxSummaries}
  /\ concurrency \in {GenerateConcurrency, DefaultConcurrency}
  /\ sumDelay \in {0, DefaultDelay, GenerateDelay}
  /\ sumI = 0
  /\ outstanding = {}
  /\ settled = {}
  /\ summaries = {}
  /\ sumWaits = 0
  /\ sumPc = "chunk"
  /\ sumProcessed = 0

\* no summarizeIssuesBatch is under way
SummaryIdle ==
  /\ sumIssues = <<>>
  /\ concurrency = DefaultConcurrency
  /\ sumDelay = DefaultDelay
  /\ sumI = 0
  /\ outstanding = {}
  /\ settled = {}
  /\ summaries = {}
  /\ sumWaits = 0
  /\ sumPc = "idle"
  /\ sumProcessed = 0

\* chunk.map(async issue => ...): a summarizeJiraIssue call is started for
\* every issue of the chunk
StartChunk ==
  /\ sumPc = "chunk"
  /\ sumI < Len(sumChunks)
  /\ outstanding' = outstanding \cup Range(sumChunks[sumI + 1])
  /\ sumPc' = "all"
  /\ UNCHANGED <<sumIssues, concurrency, sumDelay, sumI, settled, summaries,
                 sumWaits, sumProcessed>>
  /\ UNCHANGED <<rlVars, chVars, migVars, responses, adfVars, stVars, pgVars, atVars>>

\* one summarizeJiraIssue call settles: with a summary, or with null (too
\* little text, or an error it caught); it never rejects
Settle ==
  /\ \E issue \in outstanding, summary \in BOOLEAN :
       /\ outstanding' = outstanding \ {issue}
       /\ settled' = settled \cup {issue}
       /\ summaries' = IF summary THEN summaries \cup {issue} ELSE summaries
  /\ UNCHANGED <<sumIssues, concurrency, sumDelay, sumI, sumWaits, sumPc,
                 sumProcessed>>
  /\ UNCHANGED <<rlVars, chVars, migVars, responses, adfVars, stVars, pgVars, atVars>>

\* `await Promise.all(chunkPromises)` resumes, then the delay between chunks
AllSettled_Race ==
  /\ sumPc = "all"
  /\ outstanding # Range(sumChunks[sumI + 1])
  /\ IF sumI < Len(sumChunks) - 1 /\ sumDelay > 0
     THEN sumPc' = "delay" /\ UNCHANGED sumI
     ELSE sumPc' = "chunk" /\ sumI' = sumI + 1
  /\ UNCHANGED <<sumIssues, concurrency, sumDelay, outstanding, settled,
                 summaries, sumWaits, sumProcessed>>
  /\ UNCHANGED <<rlVars, chVars, migVars, responses, adfVars, stVars, pgVars, atVars>>
AllSettled ==
  /\ sumPc = "all"
  /\ outstanding = {}
  /\ IF sumI < Len(sumChunks) - 1 /\ sumDelay > 0
     THEN sumPc' = "delay" /\ UNCHANGED sumI
     ELSE sumPc' = "chunk" /\ sumI' = sumI + 1
  /\ UNCHANGED <<sumIssues, concurrency, sumDelay, outstanding, settled,
                 summaries, sumWaits, sumProcessed>>
  /\ UNCHANGED <<rlVars, chVars, migVars, responses, adfVars, stVars, pgVars, atVars>>

\* the setTimeout(resolve, delay) between two chunks fires
DelayElapsed ==
  /\ sumPc = "delay"
  /\ sumWaits' = sumWaits + 1
  /\ sumI' = sumI + 1
  /\ sumPc' = "chunk"
  /\ UNCHANGED <<sumIssues, concurrency, sumDelay, outstanding, settled,
                 summaries, sumProcessed>>
  /\ UNCHANGED <<rlVars, chVars, migVars, responses, adfVars, stVars, pgVars, atVars>>

\* summarizeIssuesBatch returns summaries; generateSummaries returns them and
\* migrate() goes on to processIssuesBatch
SummariesReturned ==
  /\ sumPc = "chunk"
  /\ sumI >= Len(sumChunks)
  /\ sumPc' = "processIssuesBatch"
  /\ UNCHANGED <<sumIssues, concurrency, sumDelay, sumI, outstanding, settled,
                 summaries, sumWaits, sumProcessed>>
  /\ UNCHANGED <<rlVars, chVars, migVars, responses, adfVars, stVars, pgVars, atVars>>

\* processIssuesBatch calls processIssue for the next issue and awaits it
ProcessSummarized ==
  /\ sumPc = "processIssuesBatch"
  /\ sumProcessed < Len(sumIssues)
  /\ sumProcessed' = sumProcessed + 1
  /\ UNCHANGED <<sumIssues, concurrency, sumDelay, sumI, outstanding, settled,
                 summaries, sumWaits, sumPc>>
  /\ UNCHANGED <<rlVars, chVars, migVars, responses, adfVars, stVars, pgVars, atVars>>

(***************************************************************************)
(* MarkdownConverter (utils.js) on Atlassian Document Format                *)
(***************************************************************************)
MaxBlocks == 2       \* most top-level nodes of a document
MaxTotal == 4        \* most issues a JQL query matches in SpecPaging
MaxPageSize == 3     \* largest batch size and page size in SpecPaging
MaxAttachments == 3  \* most attachments of one issue

\* Text is a sequence of characters.
NL == <<"\n">>
Hello == <<"H", "e", "l", "l", "o">>
\* the three backquotes of a code fence, as one symbol
Fence == <<"FENCE">>

\* An ADF node: its type, its text, and its content field, which holds an
\* array of nodes (arr = "array"), some other truthy value (arr = "other")
\* or nothing (arr = "none"). The type "null" stands for a value that is not
\* an object.
Node(type, text, arr, content) ==
  [type |-> type, text |-> text, arr |-> arr, content |-> content]
TextNode(t) == Node("text", t, "none", <<>>)
HardBreak == Node("hardBreak", <<>>, "none", <<>>)
Null == Node("null", <<>>, "none", <<>>)
Parent(type, content) == Node(type, <<>>, "array", content)
Malformed(type) == Node(type, <<>>, "other", <<>>)

\* the outcome of a call: a text, or the TypeError of calling map / forEach
\* on a value that has none
Ok(t) == [ok |-> TRUE, text |-> t]
TypeError == [ok |-> FALSE, text |-> <<>>]

\* array.join('')
RECURSIVE join(_)
join(texts) == IF texts = <<>> THEN <<>> ELSE Head(texts) \o join(Tail(texts))

\* String.prototype.trim
RECURSIVE trimStart(_)
trimStart(t) ==
  IF t # <<>> /\ Head(t) \in {" ", "\n", "\t"} THEN trimStart(Tail(t)) ELSE t
RECURSIVE trimEnd(_)
trimEnd(t) ==
  IF t # <<>> /\ t[Len(t)] \in {" ", "\n", "\t"}
  THEN trimEnd(SubSeq(t, 1, Len(t) - 1)) ELSE t
trim(t) == trimEnd(trimStart(t))

\* `${index + 1}. ` for an ordered list, '- ' for a bullet list (index from 0)
listPrefix_ZeroBased(type, index) ==
  IF type = "orderedList" THEN <<ToString(index), ".", " ">> ELSE <<"-", " ">>
listPrefix(type, index) ==
  IF type = "orderedList" THEN <<ToString(index + 1), ".", " ">> ELSE <<"-", " ">>

\* '#'.repeat(level) + ' '
headingPrefix(level) == [n \in 1..level |-> "#"] \o <<" ">>

RECURSIVE extractTextFromADF(_)
\* content.map(node => this.extractTextFromADF(node)).join('')
mapJoin(adfContent) ==
  IF adfContent.arr = "other" THEN TypeError
  ELSE LET r == [n \in 1..Len(adfContent.content) |->
                  extractTextFromADF(adfContent.content[n])]
       IN IF \E n \in 1..Len(r) : ~r[n].ok THEN TypeError
          ELSE Ok(join([n \in 1..Len(r) |-> r[n].text]))

\* content.forEach((item, index) => text += prefix + extract(item).trim() + '\n')
forEachItem(adfContent) ==
  IF adfContent.arr = "other" THEN TypeError
  ELSE LET r == [n \in 1..Len(adfContent.content) |->
                  extractTextFromADF(adfContent.content[n])]
       IN IF \E n \in 1..Len(r) : ~r[n].ok THEN TypeError
          ELSE Ok(join([n \in 1..Len(r) |->
                         listPrefix(adfContent.type, n - 1) \o trim(r[n].text) \o NL]))

extractTextFromADF(adfContent) ==
  IF adfContent.type \in {"null", "undefined", "string"} THEN Ok(<<>>)
  ELSE IF adfContent.type = "text" THEN Ok(adfContent.text)
  ELSE IF adfContent.type = "hardBreak" THEN Ok(NL)
  ELSE IF adfContent.type \in {"media", "mediaSingle", "mediaGroup"} THEN
    Ok(<<"[", "a", "t", "t", "a", "c", "h", "m", "e", "n", "t", "]">>)
  ELSE IF adfContent.type \in {"paragraph", "orderedList", "bulletList",
                               "listItem", "codeBlock", "heading"} THEN
    IF adfContent.arr = "none" THEN Ok(<<>>)
    ELSE LET r == IF adfContent.type \in {"orderedList", "bulletList"}
                  THEN forEachItem(adfContent)
                  ELSE mapJoin(adfContent)
         IN IF ~r.ok THEN r
            ELSE IF adfContent.type = "paragraph" THEN Ok(r.text \o NL \o NL)
            ELSE IF adfContent.type = "listItem" THEN Ok(trim(r.text))
            ELSE IF adfContent.type = "codeBlock" THEN
              Ok(Fence \o NL \o r.text \o NL \o Fence \o NL \o NL)
            ELSE IF adfContent.type = "heading" THEN
              Ok(headingPrefix(1) \o r.text \o NL \o NL)
            ELSE Ok(r.text \o NL)
  ELSE IF adfContent.arr = "array" THEN mapJoin(adfContent)
  ELSE Ok(<<>>)

\* the falsy arguments of toMarkdown: null, undefined and ''
EmptyInputs ==
  {Null, Node("undefined", <<>>, "none", <<>>), Node("string", <<>>, "none", <<>>)}

\* toMarkdown on a falsy value or on an object with type 'doc' and a content
\* field. Without the first check null and undefined would reach
\* String(content) and come out as the words 'null' and 'undefined'.
toMarkdown_NoEmptyCheck(content) ==
  IF content.type = "null" THEN Ok(<<"n", "u", "l", "l">>)
  ELSE IF content.type = "undefined"
    THEN Ok(<<"u", "n", "d", "e", "f", "i", "n", "e", "d">>)
  ELSE extractTextFromADF(content)
toMarkdown(content) ==
  IF content \in EmptyInputs THEN Ok(<<>>)
  ELSE extractTextFromADF(content)

\* the documents a description is drawn from
Paragraphs ==
  LET Inlines == {TextNode(Hello), HardBreak}
  IN {Parent("paragraph", c) :
        c \in {<<>>} \cup {<<x>> : x \in Inlines}
                    \cup {<<x, y>> : x \in Inlines, y \in Inlines}}
Lists ==
  LET ListItems ==
        {Parent("listItem", <<Parent("paragraph", <<TextNode(t)>>)>>) :
           t \in {<<"A">>, <<"B">>}}
          \cup {Parent("listItem", <<TextNode(<<" ", "A", " ">>)>>)}
  IN {Parent(type, items) :
        type \in {"bulletList", "orderedList"},
        items \in {<<x>> : x \in ListItems}
                    \cup {<<x, y>> : x \in ListItems, y \in ListItems}}
Docs ==
  LET MalformedNodes ==
        {Malformed("paragraph"), Malformed("bulletList"),
         Parent("bulletList", <<Malformed("listItem")>>),
         Parent("panel", <<TextNode(<<"A">>)>>), Malformed("panel"), Null}
      Blocks == Paragraphs \cup Lists \cup MalformedNodes
  IN {Parent("doc", c) : c \in SeqsUpTo(Blocks, MaxBlocks)}

\* buildGitHubBody is about to convert a description
AdfInit ==
  /\ adfDoc \in Docs \cup EmptyInputs
  /\ adfResult = Ok(<<>>)
  /\ adfPc = "toMarkdown"

\* no conversion is under way
AdfIdle ==
  /\ adfDoc = Parent("doc", <<>>)
  /\ adfResult = Ok(<<>>)
  /\ adfPc = "idle"

\* `body += this.markdownConverter.toMarkdown(description)`
Convert ==
  /\ adfPc = "toMarkdown"
  /\ adfResult' = toMarkdown(adfDoc)
  /\ adfPc' = "converted"
  /\ UNCHANGED adfDoc
  /\ UNCHANGED <<rlVars, chVars, migVars, responses, sumVars, stVars, pgVars, atVars>>

\* buildGitHubBody and convertAndCreateIssue have no catch: a text goes into
\* the body and on to createIssue, an error reaches the catch block of
\* processIssue, which records the issue as 'error'
BodyBuilt ==
  /\ adfPc = "converted"
  /\ adfPc' = IF adfResult.ok THEN "createIssue" ELSE "error"
  /\ UNCHANGED <<adfDoc, adfResult>>
  /\ UNCHANGED <<rlVars, chVars, migVars, responses, sumVars, stVars, pgVars, atVars>>

(***************************************************************************)
(* StatusMapper (utils.js)                                                 *)
(***************************************************************************)
\* String.prototype.toLowerCase on character sequences
toLowerCase_Identity(str) == str
toLowerCase(str) ==
  LET Upper == <<"A", "B", "C", "D", "E", "F", "G", "H", "I", "J", "K", "L", "M", "N", "O", "P", "Q", "R", "S", "T", "U", "V", "W", "X", "Y", "Z">>
      Lower == <<"a", "b", "c", "d", "e", "f", "g", "h", "i", "j", "k", "l", "m", "n", "o", "p", "q", "r", "s", "t", "u", "v", "w", "x", "y", "z">>
      LowerChar(c) ==
        IF \E n \in 1..Len(Upper) : Upper[n] = c
        THEN Lower[CHOOSE n \in 1..Len(Upper) : Upper[n] = c]
        ELSE c
  IN [n \in 1..Len(str) |-> LowerChar(str[n])]

\* mapStatus(jiraStatus) of a StatusMapper whose mapping is `explicit`, a
\* function from status names to 'open' / 'closed'
mapStatusWith(explicit, jiraStatus) ==
  IF jiraStatus \in DOMAIN explicit /\ explicit[jiraStatus] # ""
  THEN explicit[jiraStatus]
  ELSE LET lowerStatus == toLowerCase(jiraStatus)
       IN IF \/ Includes(lowerStatus, <<"d", "o", "n", "e">>)
             \/ Includes(lowerStatus, <<"c", "l", "o", "s", "e", "d">>)
             \/ Includes(lowerStatus, <<"r", "e", "s", "o", "l", "v", "e", "d">>)
             \/ Includes(lowerStatus, <<"c", "o", "m", "p", "l", "e", "t", "e">>)
          THEN "closed"
          ELSE "open"

\* the status names mapStatus is called with
StatusNames ==
  {<<"R", "e", "s", "o", "l", "v", "e", "d">>,
   <<"I", "n", " ", "R", "e", "v", "i", "e", "w">>,
   <<"D", "o", "n", "e">>,
   <<"D", "O", "N", "E">>,
   <<"C", "l", "o", "s", "e", "d">>,
   <<"C", "o", "m", "p", "l", "e", "t", "e">>,
   <<"C", "o", "m", "p", "l", "e", "t", "e", "d">>,
   <<"T", "o", " ", "D", "o">>,
   <<"I", "n", " ", "P", "r", "o", "g", "r", "e", "s", "s">>,
   <<"U", "n", "d", "o", "n", "e">>,
   <<"R", "e", "o", "p", "e", "n", "e", "d">>,
   <<"I", "n", "c", "o", "m", "p", "l", "e", "t", "e">>}

\* the explicit mappings a StatusMapper is constructed with
StatusMappings ==
  {<<>>,
   (<<"I", "n", " ", "P", "r", "o", "g", "r", "e", "s", "s">> :> "open") @@ (<<"D", "o", "n", "e">> :> "closed"),
   (<<"R", "e", "s", "o", "l", "v", "e", "d">> :> "open"),
   (<<"I", "n", " ", "R", "e", "v", "i", "e", "w">> :> "closed"),
   (<<"T", "o", " ", "D", "o">> :> "closed") @@ (<<"D", "O", "N", "E">> :> "open")}

\* new StatusMapper(mapping), before mapStatus(jiraStatus)
StatusInit ==
  /\ statusMapping \in StatusMappings
  /\ statusName \in StatusNames
  /\ statusResult = ""

\* no mapStatus call is under way
StatusIdle ==
  /\ statusMapping = <<>>
  /\ statusName = <<>>
  /\ statusResult = "idle"

\* `const state = this.statusMapper.mapStatus(fields.status?.name)`
MapStatus ==
  /\ statusResult = ""
  /\ statusResult' = mapStatusWith(statusMapping, statusName)
  /\ UNCHANGED <<statusMapping, statusName>>
  /\ UNCHANGED <<rlVars, chVars, migVars, responses, sumVars, adfVars, pgVars, atVars>>

(***************************************************************************)
(* JiraClient.getAllIssues (jiraClient.js): the pagination loop            *)
(***************************************************************************)

\* `const maxResults = options.batchSize || 50`
DefaultPageSize == 50

\* the issues matching the JQL, in result order
ResultList(total) == [n \in 1..total |-> n]

\* what searchIssues returns for one POST /rest/api/3/search: the endpoint
\* answers with the slice of the result list that starts at startAt and
\* holds at most pageLen issues, with the total, the startAt it was asked
\* for and the maxResults value it reports
searchIssues(total, from, pageLen, reported) ==
  LET issues == slice(ResultList(total), from, from + pageLen)
  IN [issues     |-> issues,
      total      |-> total,
      startAt    |-> from,
      maxResults |-> reported,
      hasMore    |-> from + Len(issues) < total]

\* no getAllIssues call is under way
PagingIdle ==
  /\ pgTotal = 0
  /\ pgBatchSize = 0
  /\ pgReported = 0
  /\ pgPageLen = 0
  /\ pgStartAt = 0
  /\ pgAllIssues = <<>>
  /\ pgHasMore = FALSE
  /\ pgPc = "idle"

\* one round of `while (hasMore)`: searchIssues, push, `startAt +=
\* result.maxResults`, `hasMore = result.hasMore`
FetchPage ==
  /\ pgPc = "while"
  /\ pgHasMore
  /\ LET result == searchIssues(pgTotal, pgStartAt, pgPageLen, pgReported)
     IN /\ pgAllIssues' = pgAllIssues \o result.issues
        /\ pgStartAt' = pgStartAt + result.maxResults
        /\ pgHasMore' = result.hasMore
  /\ UNCHANGED <<pgTotal, pgBatchSize, pgReported, pgPageLen, pgPc>>
  /\ UNCHANGED <<rlVars, chVars, migVars, responses, sumVars, adfVars, stVars, atVars>>

\* the loop condition fails: `return allIssues`
AllIssuesReturned ==
  /\ pgPc = "while"
  /\ ~pgHasMore
  /\ pgPc' = "returned"
  /\ UNCHANGED <<pgTotal, pgBatchSize, pgReported, pgPageLen, pgStartAt,
                 pgAllIssues, pgHasMore>>
  /\ UNCHANGED <<rlVars, chVars, migVars, responses, sumVars, adfVars, stVars, atVars>>

(***************************************************************************)
(* GitHubClient.handleAttachments (githubClient.js)                        *)
(***************************************************************************)

\* a Jira attachment: its filename, and what happens when it is downloaded
\* from Jira and uploaded as a release asset ("none": both calls succeed;
\* "download", "upload": that call throws after its retries)
Attachments == [filename : {"a.png", "b.txt"}, fails : {"none", "download", "upload"}]

\* attachment.content, the locator of the file in Jira
downloadUrl(attachment) == <<"jira", attachment.filename>>

\* uploadResult.browser_download_url
browser_download_url(attachment) == <<"release", attachment.filename>>

\* the body of the for loop without its try/catch: a failed download or
\* upload leaves handleAttachments as an exception
handleOne_NoCatch(attachment, strategy) ==
  IF strategy = "upload"
  THEN IF attachment.fails = "none"
       THEN [filename |-> attachment.filename, url |-> browser_download_url(attachment),
             note |-> ""]
       ELSE [raised |-> attachment.fails]
  ELSE [filename |-> attachment.filename, url |-> downloadUrl(attachment),
             note |-> "From Jira"]

\* the body of the for loop: the line one attachment adds to attachmentText.
\* buildGitHubBody always passes a jiraClient
handleOne(attachment, strategy) ==
  IF strategy = "upload"
  THEN IF attachment.fails = "none"
       THEN [filename |-> attachment.filename, url |-> browser_download_url(attachment),
             note |-> ""]
       ELSE [filename |-> attachment.filename, url |-> downloadUrl(attachment),
             note |-> "From Jira (upload failed)"]
  ELSE [filename |-> attachment.filename, url |-> downloadUrl(attachment),
             note |-> "From Jira"]

\* no handleAttachments call is under way
AttachIdle ==
  /\ atList = <<>>
  /\ atStrategy = "link"
  /\ atI = 0
  /\ atText = <<>>
  /\ atCount = 0
  /\ atPc = "idle"

\* one round of `for (const attachment of attachments)`; an exception that
\* left the loop would leave buildGitHubBody and convertIssue too and reach
\* the catch block of processIssue
HandleAttachment ==
  /\ atPc = "for"
  /\ atI < Len(atList)
  /\ LET line == handleOne(atList[atI + 1], atStrategy)
     IN IF "raised" \in DOMAIN line
        THEN /\ atPc' = "error"
             /\ UNCHANGED <<atI, atText>>
        ELSE /\ atI' = atI + 1
             /\ atText' = Append(atText, line)
             /\ atPc' = atPc
  /\ UNCHANGED <<atList, atStrategy, atCount>>
  /\ UNCHANGED <<rlVars, chVars, migVars, responses, sumVars, adfVars, stVars, pgVars>>

\* the loop is over (or the list is empty): `return attachmentText`
AttachmentsReturned ==
  /\ atPc = "for"
  /\ atI = Len(atList)
  /\ atPc' = "returned"
  /\ UNCHANGED <<atList, atStrategy, atI, atText, atCount>>
  /\ UNCHANGED <<rlVars, chVars, migVars, responses, sumVars, adfVars, stVars, pgVars>>

\* buildGitHubBody: `body += attachmentText;
\* this.stats.attachments += attachments.length`
AttachmentsAppended ==
  /\ atPc = "returned"
  /\ atPc' = "body"
  /\ atCount' = atCount + Len(atList)
  /\ UNCHANGED <<atList, atStrategy, atI, atText>>
  /\ UNCHANGED <<rlVars, chVars, migVars, responses, sumVars, adfVars, stVars, pgVars>>

vars == <<rlVars, migVars, chVars, utilVars>>

Init ==
  /\ MigratorInit /\ RetryIdle /\ ChunkIdle /\ SearchIdle
  /\ SummaryIdle /\ AdfIdle /\ StatusIdle /\ PagingIdle /\ AttachIdle

Next ==
  \/ StartRun
  \/ testConnections
  \/ loadMapping
  \/ fetchJiraIssues
  \/ processIssue
  \/ checkExisting
  \/ convertIssue
  \/ createIssue
  \/ getComments
  \/ migrateComment
  \/ nextIssue
  \/ saveMapping
  \/ finalSave
  \/ writeFile
  \/ Crash

Spec == Init /\ [][Next]_vars

\* one run under any subtask configuration, in which no remote call and no
\* file operation fails
SubtasksInit ==
  /\ NotStarted
  /\ jiraResult \in IssueLists
  /\ subtasks \in SubtaskConfigs
  /\ batchSize \in 1..MaxBatchSize
  /\ run = MaxRuns - 1
  /\ faults = MaxFaults

InitSubtasks ==
  /\ SubtasksInit /\ RetryIdle /\ ChunkIdle /\ SearchIdle
  /\ SummaryIdle /\ AdfIdle /\ StatusIdle /\ PagingIdle /\ AttachIdle

SpecSubtasks == InitSubtasks /\ [][Next]_vars

\* executeWithRetry or chunkArray on its own: no migration is running
MigratorIdle ==
  /\ NotStarted
  /\ jiraResult = <<>>
  /\ subtasks = SubtasksDisabled
  /\ batchSize = 1
  /\ run = 0
  /\ faults = 0

InitRetry ==
  /\ RetryInit /\ MigratorIdle /\ ChunkIdle /\ SearchIdle
  /\ SummaryIdle /\ AdfIdle /\ StatusIdle /\ PagingIdle /\ AttachIdle

NextRetry == FnResolves \/ FnRejects

SpecRetry == InitRetry /\ [][NextRetry]_vars

InitChunk ==
  /\ ChunkInit /\ MigratorIdle /\ RetryIdle /\ SearchIdle
  /\ SummaryIdle /\ AdfIdle /\ StatusIdle /\ PagingIdle /\ AttachIdle

NextChunk == ChunkStep

SpecChunk == InitChunk /\ [][NextChunk]_vars

\* one call of Migrator.chunkArray by processIssuesBatch with a batch size of
\* any sign; the loop keeps running while its condition holds
InitBatchSize ==
  /\ BatchSizeInit /\ MigratorIdle /\ RetryIdle /\ SearchIdle
  /\ SummaryIdle /\ AdfIdle /\ StatusIdle /\ PagingIdle /\ AttachIdle

SpecBatchSize == InitBatchSize /\ [][NextChunk]_vars /\ WF_vars(ChunkStep)

\* one call of JiraClient.searchIssues, whose RateLimiter is `new RateLimiter()`
InitSearch ==
  /\ RetryIdle /\ SearchIdle /\ MigratorIdle /\ ChunkIdle
  /\ SummaryIdle /\ AdfIdle /\ StatusIdle /\ PagingIdle /\ AttachIdle

NextSearch == SearchResolves \/ SearchRejects

SpecSearch == InitSearch /\ [][NextSearch]_vars

\* one call of Summarizer.summarizeIssuesBatch and the processing after it
InitSummary ==
  /\ SummaryInit /\ MigratorIdle /\ RetryIdle /\ ChunkIdle /\ SearchIdle
  /\ AdfIdle /\ StatusIdle /\ PagingIdle /\ AttachIdle

NextSummary ==
  \/ StartChunk
  \/ Settle
  \/ AllSettled
  \/ DelayElapsed
  \/ SummariesReturned
  \/ ProcessSummarized

SpecSummary == InitSummary /\ [][NextSummary]_vars

\* one conversion of a description by MarkdownConverter.toMarkdown
InitAdf ==
  /\ AdfInit /\ MigratorIdle /\ RetryIdle /\ ChunkIdle /\ SearchIdle
  /\ SummaryIdle /\ StatusIdle /\ PagingIdle /\ AttachIdle

NextAdf == Convert \/ BodyBuilt

SpecAdf == InitAdf /\ [][NextAdf]_vars

\* one call of StatusMapper.mapStatus
InitStatus ==
  /\ StatusInit /\ MigratorIdle /\ RetryIdle /\ ChunkIdle /\ SearchIdle
  /\ SummaryIdle /\ AdfIdle /\ PagingIdle /\ AttachIdle

NextStatus == MapStatus

SpecStatus == InitStatus /\ [][NextStatus]_vars

\* one call of JiraClient.getAllIssues(jql, {batchSize}); the endpoint reports
\* a maxResults of at most the one asked for (`options.batchSize || 50`), and
\* puts at most that many issues in a page
InitPaging ==
  /\ pgTotal \in 0..MaxTotal
  /\ pgBatchSize \in 0..MaxPageSize
  /\ pgReported \in 1..MaxPageSize
  /\ pgReported <= (IF pgBatchSize = 0 THEN DefaultPageSize ELSE pgBatchSize)
  /\ pgPageLen \in 1..pgReported
  /\ pgStartAt = 0
  /\ pgAllIssues = <<>>
  /\ pgHasMore = TRUE
  /\ pgPc = "while"
  /\ MigratorIdle /\ RetryIdle /\ ChunkIdle /\ SearchIdle
  /\ SummaryIdle /\ AdfIdle /\ StatusIdle /\ AttachIdle

NextPaging == FetchPage \/ AllIssuesReturned

SpecPaging == InitPaging /\ [][NextPaging]_vars

\* one call of GitHubClient.handleAttachments by buildGitHubBody, from
\* `const attachments = fields.attachment || []` on
InitAttach ==
  /\ atList \in SeqsUpTo(Attachments, MaxAttachments)
  /\ atStrategy \in {"link", "upload"}
  /\ atI = 0
  /\ atText = <<>>
  /\ atCount = 0
  /\ atPc = "for"
  /\ MigratorIdle /\ RetryIdle /\ ChunkIdle /\ SearchIdle
  /\ SummaryIdle /\ AdfIdle /\ StatusIdle /\ PagingIdle

NextAttach == HandleAttachment \/ AttachmentsReturned \/ AttachmentsAppended

SpecAttach == InitAttach /\ [][NextAttach]_vars

(***************************************************************************)
(* Properties                                                              *)
(***************************************************************************)
Has(seq, x) == \E n \in 1..Len(seq) : seq[n] = x

\* the counters of stats that processIssue moved since it was entered
Delta(f) == stats[f] - itemStart.stats[f]

\* C1: an issue whose record is 'migrated' or 'existing' when processIssue is
\* entered is skipped at once: processIssue calls no GitHubClient method
\* (no search, label, create or comment call) and the record stays as it was.
C1_SkipRecorded ==
  itemStart.rec.status \in {"migrated", "existing"} =>
    /\ pc = "itemDone"
    /\ calls = <<>>
    /\ mapping[itemStart.key] = itemStart.rec

\* an issue recorded as 'existing' by an earlier run has been skipped
C1_Witness ==
  /\ pc = "itemDone"
  /\ run = 2
  /\ itemStart.rec.status = "existing"
  /\ Len(github) > 0

\* C2: no record, the search gives no match, dry-run is off and createIssue
\* returns issue n: the record is {status: migrated, githubNumber: n} and the
\* statistics moved by processed +1, created +1, skipped +0, errors +0.
C2_CreatedRecorded ==
  ( /\ pc = "itemDone"
    /\ itemStart.rec = NoRecord
    /\ ~dryRun
    /\ existingIssue = 0
    /\ githubIssue # 0 ) =>
    /\ mapping[itemStart.key].status = "migrated"
    /\ mapping[itemStart.key].githubNumber = githubIssue
    /\ github[githubIssue].jiraKey = itemStart.key
    /\ Delta("processed") = 1
    /\ Delta("created") = 1
    /\ Delta("skipped") = 0
    /\ Delta("errors") = 0

\* an issue was created and one of its comments could not be replicated
C2_Witness ==
  /\ pc = "itemDone"
  /\ itemStart.rec = NoRecord
  /\ ~dryRun
  /\ existingIssue = 0
  /\ githubIssue # 0
  /\ Has(calls, "createComment")
  /\ Len(github[githubIssue].comments) < JiraComments(itemStart.key)

\* an error that is rate-limited, server-class, or carries no status
Transient(error) ==
  \/ error.status = 429
  \/ error.rateMsg
  \/ error.status >= 500
  \/ error.status = NoStatus

\* a 4xx error other than 429 whose message has no rate-limit marker
ClientClass(error) ==
  /\ error.status >= 400
  /\ error.status < 500
  /\ error.status # 429
  /\ ~error.rateMsg

\* C3: when every attempt fails with a transient error, the waits are
\* baseDelay*2^0, baseDelay*2^1, ... one after each failed attempt but the
\* last; executeWithRetry throws after exactly maxRetries+1 calls, with
\* maxRetries waits, and what it throws is the error of the last call.
C3_RetryBound ==
  (\A n \in 1..Len(fnErrors) : Transient(fnErrors[n])) =>
    /\ fnCalls <= maxRetries + 1
    /\ Len(delays) = IF rlPc = "thrown" THEN Len(fnErrors) - 1 ELSE Len(fnErrors)
    /\ \A n \in 1..Len(delays) : delays[n] = baseDelay * (2 ^ (n - 1))
    /\ rlPc = "thrown" =>
         /\ fnCalls = maxRetries + 1
         /\ Len(delays) = maxRetries
         /\ rlResult = [kind |-> "error", e |-> fnErrors[Len(fnErrors)]]
         /\ rlResult.e.id = fnCalls

\* three retries were used up, one of the errors had no status
C3_Witness ==
  /\ rlPc = "thrown"
  /\ maxRetries = 3
  /\ fnCalls = 4
  /\ \A n \in 1..Len(fnErrors) : Transient(fnErrors[n])
  /\ \E n \in 1..Len(fnErrors) : fnErrors[n].status = NoStatus /\ ~fnErrors[n].rateMsg

\* C4: a client-class error ends executeWithRetry at once: no wait follows it,
\* no further call is made and it is the error thrown; when it is the error of
\* the first call, exactly 1 call was made and nothing was waited for.
C4_ClientErrorFatal ==
  \A n \in 1..Len(fnErrors) :
    ClientClass(fnErrors[n]) =>
      /\ n = Len(fnErrors)
      /\ fnCalls = n
      /\ Len(delays) = n - 1
      /\ rlPc = "thrown"
      /\ rlResult = [kind |-> "error", e |-> fnErrors[n]]

\* a 403 on the first call of a limiter that had three retries left
C4_Witness ==
  /\ rlPc = "thrown"
  /\ maxRetries = 3
  /\ fnCalls = 1
  /\ delays = <<>>
  /\ fnErrors[1].status = 403

\* C5: an error with status 429 or with a rate-limit marker in its message is
\* never the reason to give up, whatever its status: after such an error the
\* next call is made, unless the maxRetries retries are used up.
C5_RateLimitRetried ==
  \A n \in 1..Len(fnErrors) :
    (fnErrors[n].status = 429 \/ fnErrors[n].rateMsg) /\ n <= maxRetries =>
      /\ rlPc # "thrown" \/ Len(fnErrors) > n
      /\ Len(delays) >= n

\* a rate-limited 403 was followed by another call
C5_Witness ==
  /\ Len(fnErrors) >= 1
  /\ fnErrors[1].status = 403
  /\ fnErrors[1].rateMsg
  /\ fnCalls >= 2

\* C6: when a call succeeds after k failed ones, executeWithRetry has returned
\* the value of that call, the call was number k+1 with k <= maxRetries, and
\* no call is made after it.
C6_ReturnsFirstSuccess ==
  rlResult.kind = "value" =>
    /\ rlPc = "returned"
    /\ fnCalls = Len(fnErrors) + 1
    /\ rlResult.v = fnCalls
    /\ Len(fnErrors) <= maxRetries
    /\ Len(delays) = Len(fnErrors)

\* success on the third call
C6_Witness ==
  /\ rlPc = "returned"
  /\ Len(fnErrors) = 2
  /\ fnCalls = 3
  /\ rlResult.v = 3

\* C7: when findExistingIssue returns an issue, the record becomes 'existing'
\* with that issue's number and url, skipped is raised by 1, created and
\* errors by 0, and the search is the only GitHub call, in dry-run or not.
C7_ExistingRecorded ==
  (pc = "itemDone" /\ existingIssue # 0) =>
    /\ mapping[itemStart.key].status = "existing"
    /\ mapping[itemStart.key].githubNumber = existingIssue
    /\ mapping[itemStart.key].githubUrl = HtmlUrl(existingIssue)
    /\ Delta("processed") = 1
    /\ Delta("skipped") = 1
    /\ Delta("created") = 0
    /\ Delta("errors") = 0
    /\ calls = <<"findExistingIssue">>

\* an existing issue was found during a dry run
C7_Witness ==
  /\ pc = "itemDone"
  /\ dryRun
  /\ existingIssue # 0
  /\ itemStart.rec.status = "none"

\* C8: in a dry run, an issue with no record and no existing GitHub issue
\* raises created by 1 and nothing else but processed; the mapping in memory
\* and mapping.json have no record for it; the search is the only GitHub call.
\* mapping.json never holds a record the mapping in memory lacks.
C8_DryRunNoEffect ==
  /\ ( /\ pc = "itemDone"
       /\ dryRun
       /\ itemStart.rec = NoRecord
       /\ existingIssue = 0 ) =>
       /\ Delta("processed") = 1
       /\ Delta("created") = 1
       /\ Delta("skipped") = 0
       /\ Delta("errors") = 0
       /\ mapping[itemStart.key] = NoRecord
       /\ calls = <<"findExistingIssue">>
  /\ \A k \in Keys :
       ( /\ pc \in {"fetchJiraIssues", "batch", "findExisting", "convert",
                   "createIssue", "getComments", "migrateComment", "itemDone",
                   "finalSave", "done"}
         /\ fileExists
         /\ mapping[k] = NoRecord ) => mappingFile[k] = NoRecord

\* a dry run went over an unrecorded issue while GitHub held other issues and
\* mapping.json existed
C8_Witness ==
  /\ pc = "itemDone"
  /\ dryRun
  /\ itemStart.rec = NoRecord
  /\ existingIssue = 0
  /\ fileExists
  /\ Len(github) > 0

\* C9: in a dry run migrate() calls no GitHubClient method that reaches the
\* GitHub API (authentication test, repository test, search, create).
C9_DryRunNoGitHubCall ==
  (dryRun /\ pc # "idle") => runCalls = {}

\* C10: an issue whose record is 'error' is not skipped: the destination is
\* searched; a match gives an 'existing' record; with no match and dry-run
\* off the creation is attempted and the record becomes 'migrated' or a new
\* 'error'; in each case the new record replaces the old one.
C10_ErrorRetried ==
  (pc = "itemDone" /\ itemStart.rec.status = "error") =>
    /\ Len(calls) >= 1
    /\ calls[1] = "findExistingIssue"
    /\ existingIssue # 0 =>
         mapping[itemStart.key] = ExistingRecord(existingIssue, run)
    /\ (existingIssue = 0 /\ ~dryRun) =>
         /\ mapping[itemStart.key].migratedAt = run
         /\ mapping[itemStart.key] # itemStart.rec
         /\ \/ /\ mapping[itemStart.key].status = "migrated"
               /\ Has(calls, "createIssue")
               /\ mapping[itemStart.key].githubNumber = githubIssue
            \/ /\ mapping[itemStart.key].status = "error"
               /\ \/ Has(calls, "createIssue")
                  \/ mapping[itemStart.key].error = "conversion failed"

\* an issue that failed in the first run is migrated by the second
C10_Witness ==
  /\ pc = "itemDone"
  /\ itemStart.rec.status = "error"
  /\ itemStart.rec.migratedAt = 1
  /\ run = 2
  /\ mapping[itemStart.key].status = "migrated"

\* processIssue calls that have been entered and have not returned
InProgress == Len(order) - finished

\* C11: a failure in conversion or creation is caught inside processIssue:
\* the key gets an 'error' record with the message and errors moves by one;
\* a run is never abandoned inside processIssue, and a run that returns its
\* statistics has called processIssue for every issue of the list, in order.
C11_ErrorCaught ==
  /\ (pc = "itemDone" /\ Delta("errors") # 0) =>
       /\ Delta("errors") = 1
       /\ Delta("created") = 0
       /\ Delta("skipped") = 0
       /\ mapping[itemStart.key].status = "error"
       /\ mapping[itemStart.key].error # ""
       /\ mapping[itemStart.key].migratedAt = run
  /\ (pc = "itemDone" /\ mapping[itemStart.key] # itemStart.rec
                      /\ mapping[itemStart.key].status = "error") =>
       Delta("errors") = 1
  /\ pc = "failed" => InProgress = 0
  /\ (pc = "done" /\ Len(jiraIssues) > 0) =>
       /\ order = jiraIssues
       /\ finished = Len(jiraIssues)
       /\ stats.processed = Len(jiraIssues)

\* the first of two issues failed, the second was created, and the run
\* returned its statistics
C11_Witness ==
  /\ pc = "done"
  /\ Len(jiraIssues) = 2
  /\ stats.errors = 1
  /\ stats.created = 1
  /\ mapping[jiraIssues[1]].status = "error"
  /\ mapping[jiraIssues[1]].migratedAt = run
  /\ mapping[jiraIssues[2]].status = "migrated"

\* the GitHubClient methods processIssue calls
ClientCalls ==
  {"findExistingIssue", "ensureLabelsExist", "createIssue", "updateIssueState",
   "createComment"}

\* C12: the issue was created and getComments or a createComment then
\* failed: the record stays 'migrated' with the number of the created issue,
\* created moved by one and errors by none, the issue is still in the
\* repository, and processIssue called nothing but search, labels, create,
\* the closing update and createComment.
C12_CommentFailureKeepsIssue ==
  (pc = "itemDone" /\ failure \in {"getComments", "createComment"}) =>
    /\ githubIssue \in 1..Len(github)
    /\ github[githubIssue].jiraKey = itemStart.key
    /\ github[githubIssue].closed = (issueState = "closed")
    /\ mapping[itemStart.key] = MigratedRecord(githubIssue, run)
    /\ Delta("created") = 1
    /\ Delta("errors") = 0
    /\ \A n \in 1..Len(calls) : calls[n] \in ClientCalls

\* the second comment of an issue could not be created
C12_Witness ==
  /\ pc = "itemDone"
  /\ failure = "createComment"
  /\ githubIssue # 0
  /\ Len(github[githubIssue].comments) = 1
  /\ JiraComments(itemStart.key) = 2

\* C13: a createComment that fails is caught for that comment alone: the
\* later comments are still sent, so the issue ends with all its comments
\* but the failed one.
C13_OtherCommentsSent ==
  (pc = "itemDone" /\ failure = "createComment") =>
    Len(github[githubIssue].comments) = JiraComments(itemStart.key) - 1

\* the positions 1..n, in order
Positions(n) == [i \in 1..n |-> i]
\* number of entries of seq that are x
Count(seq, x) == Cardinality({n \in 1..Len(seq) : seq[n] = x})

\* C14: an issue was created and neither getComments nor a createComment
\* failed: the comments of the created issue are the Jira comments, one for
\* one and in the order Jira returned them; processIssue called
\* createComment once per comment and only after createIssue; comments moved
\* by the number of comments. No issue of the repository ever holds a
\* comment that is not of its Jira issue, or holds them out of order.
C14_CommentsInOrder ==
  /\ (pc = "itemDone" /\ githubIssue # 0
                      /\ failure \notin {"getComments", "createComment"}) =>
       /\ github[githubIssue].comments = Positions(JiraComments(itemStart.key))
       /\ Count(calls, "createComment") = JiraComments(itemStart.key)
       /\ Delta("comments") = JiraComments(itemStart.key)
       /\ \A n \in 1..Len(calls) :
            calls[n] = "createComment" =>
              \E m \in 1..(n - 1) : calls[m] = "createIssue"
  /\ \A n \in 1..Len(github) :
       /\ Len(github[n].comments) <= JiraComments(github[n].jiraKey)
       /\ github[n].comments = Positions(Len(github[n].comments))

\* both comments of an issue have been created
C14_Witness ==
  /\ pc = "itemDone"
  /\ githubIssue # 0
  /\ failure = "none"
  /\ Len(github[githubIssue].comments) = 2
  /\ Delta("comments") = 2

\* the place of key x in a list of distinct keys
Pos(seq, x) == CHOOSE n \in 1..Len(seq) : seq[n] = x

\* C15: under every subtask configuration the issues are processed in the
\* order of the query result: processIssue is never called for an issue
\* before it has returned for the one before, and an issue that is earlier
\* in the query result is earlier in the order of the processIssue calls.
C15_SourceOrder ==
  /\ InProgress \in {0, 1}
  /\ \A i, j \in 1..Len(order) :
       i < j => Pos(jiraResult, order[i]) < Pos(jiraResult, order[j])

Min(a, b) == IF a < b THEN a ELSE b

\* C16: at most one processIssue is in progress. While a write of
\* mapping.json is under way none is, and the issues whose processIssue has
\* returned are exactly those of the batches up to the one being written.
\* While a processIssue is in progress no write is under way, and the
\* issue belongs to the batch after the ones written: the write of a batch
\* was complete before it, and no write was made since that batch began.
C16_SequentialBatches ==
  /\ InProgress \in {0, 1}
  /\ pc = "writeFile" =>
       /\ InProgress = 0
       /\ finished = Min((writes + 1) * batchSize, Len(jiraIssues))
  /\ InProgress = 1 =>
       /\ pc \notin {"saveMapping", "finalSave", "writeFile"}
       /\ writes * batchSize < Len(order)
       /\ Len(order) <= (writes + 1) * batchSize

\* an issue of the second batch is in progress, after the first write
C16_Witness ==
  /\ InProgress = 1
  /\ writes = 1
  /\ finished = 1
  /\ pc = "createIssue"

RECURSIVE Flatten(_)
Flatten(qs) == IF qs = <<>> THEN <<>> ELSE Head(qs) \o Flatten(Tail(qs))

\* C17: for every array and every size >= 1 the chunks chunkArray returns,
\* put together, are the array; every chunk but the last has size items,
\* the last has between 1 and size; an empty array gives no chunk. (It is
\* also what the batches of the migration model are computed as.)
C17_ChunksPartition ==
  ChunkReturned =>
    /\ Flatten(chunks) = chArray
    /\ \A n \in 1..(Len(chunks) - 1) : Len(chunks[n]) = chSize
    /\ chunks # <<>> => Len(chunks[Len(chunks)]) \in 1..chSize
    /\ chArray = <<>> => chunks = <<>>
    /\ chunks = chunkArray(chArray, chSize)

\* five items in chunks of three: a full chunk and a last one of two
C17_Witness ==
  /\ ChunkReturned
  /\ Len(chArray) = 5
  /\ chSize = 3
  /\ Len(chunks) = 2
  /\ Len(chunks[2]) = 2

\* ceil(n / b) for b >= 1
CeilDiv(n, b) == (n + b - 1) \div b

\* C18: a run over N >= 1 issues that returns its statistics has written
\* mapping.json exactly ceil(N / batchSize) times.
C18_WritesPerBatch ==
  (pc = "done" /\ Len(jiraIssues) >= 1) =>
    writes = CeilDiv(Len(jiraIssues), batchSize)

\* C18, amended: processIssuesBatch writes mapping.json once after each
\* batch, ceil(N / batchSize) times, and migrate() writes it once more
\* before it returns: ceil(N / batchSize) + 1 writes in a run.
C18_WritesPerBatchAndFinal ==
  /\ pc = "batch" => writes = batchIdx
  /\ pc = "finalSave" => writes = CeilDiv(Len(jiraIssues), batchSize)
  /\ (pc = "done" /\ Len(jiraIssues) >= 1) =>
       writes = CeilDiv(Len(jiraIssues), batchSize) + 1

\* two issues in batches of one: three writes
C18_Witness ==
  /\ pc = "done"
  /\ Len(jiraIssues) = 2
  /\ batchSize = 1
  /\ writes = 3

\* the keys mapping.json holds a record of, as loadMapping would read them
Persisted ==
  IF fileExists /\ ~fileTorn
  THEN {k \in Keys : mappingFile[k] # NoRecord}
  ELSE {}
\* the first n keys of a list
FirstKeys(seq, n) == {seq[i] : i \in 1..Min(n, Len(seq))}

\* C19: in a first, non-dry run (no mapping.json before it), between two
\* writes, and after a crash between them, mapping.json holds exactly the
\* records of the first min(writes * batchSize, N) issues; and at every
\* moment at most batchSize processed issues have no persisted record.
C19_CheckpointBound ==
  (run = 1 /\ ~dryRun) =>
    /\ (pc # "writeFile" /\ ~fileTorn) =>
         Persisted = FirstKeys(allIssues(jiraResult, subtasks), writes * batchSize)
    /\ stats.processed - Cardinality(Persisted) <= batchSize

\* C20: mapping.json, once it exists, always holds a complete table that
\* loadMapping can read, also during a write and after a crash during one.
C20_AlwaysLoadable == fileExists => ~fileTorn

\* what migrate() rejects with when a connection test fails
AuthFailures ==
  {"jiraClient.testAuthentication", "githubClient.testAuthentication",
   "githubClient.testRepositoryAccess"}

\* C21: a failed connection test and a failed read or write of mapping.json
\* make migrate() reject with that failure: the run is over at once, and
\* nothing happens after it but the start of another run (no issue is
\* processed, no GitHub call and no write is made). After a failed connection
\* test no issue was processed, nothing was written and only the connection
\* tests were called.
C21_RunLevelAbort ==
  /\ [](thrown # "none" <=> pc = "failed")
  /\ [](thrown \in AuthFailures =>
         /\ order = <<>>
         /\ stats = ZeroStats
         /\ writes = 0
         /\ runCalls \subseteq {"testAuthentication", "testRepositoryAccess"})
  /\ [][pc = "failed" => run' = run + 1]_vars

\* the write of mapping.json after the first batch failed part way
C21_Witness ==
  /\ pc = "failed"
  /\ thrown = "writeFile"
  /\ fileTorn
  /\ stats.processed = 1
  /\ Len(jiraIssues) = 2

\* the keys a mapping table records as migrated or existing
Mapped(table) == {k \in Keys : table[k].status \in {"migrated", "existing"}}

\* C22: after a run no two Jira keys that are recorded as migrated or
\* existing carry the same GitHub issue number, in memory and in
\* mapping.json, also when one key is a substring of the other.
C22_OneToOne ==
  pc = "done" =>
    /\ \A a, b \in Mapped(mapping) :
         a # b => mapping[a].githubNumber # mapping[b].githubNumber
    /\ ~fileTorn =>
         \A a, b \in Mapped(mappingFile) :
           a # b => mappingFile[a].githubNumber # mappingFile[b].githubNumber

\* the issues of the repository that were created for a key
IssuesOf(key) == {n \in 1..Len(github) : github[n].jiraKey = key}

\* C23: when a run was aborted (the process was killed at any point) and
\* migrate() is run again over the same issues, no Jira key ends up with
\* more than one GitHub issue.
\* (Stated for the keys whose issue stays open, which createIssue makes with
\* a single request.)
C23_RerunSafe ==
  (run >= 2 /\ pc = "done") =>
    \A k \in Keys :
      mapStatus(JiraStatus(k)) = "open" => Cardinality(IssuesOf(k)) <= 1

\* an HTTP status of the client class: 4xx other than 429
ClientStatus(status) == status >= 400 /\ status < 500 /\ status # 429

\* C24: the class of a Jira search failure reaches executeWithRetry: a search
\* answered with a 4xx status other than 429 is seen as a client error and
\* the request is issued exactly once (it is the last request and the call
\* has thrown), while a request answered 5xx or 429 is followed by another
\* one unless the attempts are used up.
C24_ClassIntact ==
  \A i \in 1..Len(responses) :
    /\ ClientStatus(responses[i]) =>
         /\ IsClientError(fnErrors[i])
         /\ i = 1 /\ Len(responses) = 1
         /\ rlPc = "thrown"
    /\ (responses[i] >= 500 \/ responses[i] = 429) =>
         (i < Len(responses) \/ rlPc = "loop" \/ i = maxRetries + 1)
\* the issue processIssue has just returned from had a record 'migrated' or
\* 'existing' in the table loaded from mapping.json
SkippedRecorded ==
  pc = "itemDone" /\ itemStart.rec.status \in {"migrated", "existing"}

\* C25 (as stated): for an issue with a persisted 'migrated' or 'existing'
\* record processIssue moves skipped by one and no other counter, processed
\* included.
C25_SkippedOnly ==
  SkippedRecorded =>
    /\ Delta("skipped") = 1
    /\ \A f \in DOMAIN stats \ {"skipped"} : Delta(f) = 0

\* C25 (amended): for an issue with a persisted 'migrated' or 'existing'
\* record processIssue moves processed by one and skipped by one, and leaves
\* created, errors, comments and attachments as they were.
C25_SkippedAndProcessed ==
  SkippedRecorded =>
    /\ Delta("skipped") = 1
    /\ Delta("processed") = 1
    /\ \A f \in DOMAIN stats \ {"skipped", "processed"} : Delta(f) = 0

C25_Witness ==
  /\ SkippedRecorded
  /\ itemStart.rec.status = "existing"
  /\ run = 2
  /\ stats.processed = 2 /\ stats.skipped = 1
\* the issues of the chunks before chunk number i (0-based)
EarlierIssues(i) ==
  {issue \in Range(sumIssues) : issue <= i * concurrency}

\* C26: during summarizeIssuesBatch at most `concurrency` summarizeJiraIssue
\* calls are outstanding; while any call of a chunk is outstanding every call
\* of the chunks before it has settled, and the delay between chunks is
\* waited with none outstanding; processIssuesBatch begins only when every
\* call has settled, and then processes one issue at a time with no call
\* outstanding.
C26_BoundedFanOut ==
  /\ Cardinality(outstanding) <= concurrency
  /\ outstanding \cap settled = {}
  /\ outstanding # {} =>
       /\ sumPc = "all"
       /\ EarlierIssues(sumI) \subseteq settled
       /\ outstanding \subseteq Range(sumChunks[sumI + 1])
  /\ sumPc = "delay" => sumWaits = sumI
  /\ sumPc = "processIssuesBatch" =>
       /\ settled = Range(sumIssues)
       /\ summaries \subseteq settled
  /\ sumProcessed > 0 => sumPc = "processIssuesBatch"

C26_Witness ==
  /\ sumPc = "processIssuesBatch"
  /\ Len(sumIssues) = MaxSummaries
  /\ concurrency = GenerateConcurrency
  /\ sumI = 3
  /\ sumWaits = 2
  /\ sumProcessed = 1
\* C27: when githubClient.createIssue is called, every label of its
\* issueData exists in the destination repository: a label whose creation
\* failed in ensureLabelsExist is not passed on.
C27_LabelsExist ==
  pc = "createIssue" => Range(mapLabels(jiraKey)) \subseteq repoLabels
\* C28: a malformed document degrades to partial text: toMarkdown throws no
\* error and the issue does not end in the catch block of processIssue
\* because of its description.
C28_BestEffort ==
  adfPc \in {"converted", "createIssue", "error"} =>
    /\ adfResult.ok
    /\ adfPc # "error"
\* the text of the text nodes below a node, in document order, a hardBreak
\* counting as a line break
RECURSIVE LeafText(_)
LeafText(node) ==
  IF node.type = "text" THEN node.text
  ELSE IF node.type = "hardBreak" THEN NL
  ELSE join([n \in 1..Len(node.content) |-> LeafText(node.content[n])])

\* the decimal digit of a position
Digit(n) == IF n = 1 THEN "1" ELSE IF n = 2 THEN "2" ELSE "?"

\* what a paragraph or a list is to emit: the paragraph's text and a blank
\* line; one line per item, '- ' or 'n. ' before the item's text, and a
\* blank line
Emitted(block) ==
  IF block.type = "paragraph" THEN LeafText(block) \o <<"\n", "\n">>
  ELSE join([n \in 1..Len(block.content) |->
               (IF block.type = "orderedList" THEN <<Digit(n), ".", " ">>
                ELSE <<"-", " ">>)
               \o trim(LeafText(block.content[n])) \o <<"\n">>])
       \o <<"\n">>

\* the lines of a text: the pieces between its line breaks
RECURSIVE SplitLines(_)
SplitLines(t) ==
  IF \A n \in 1..Len(t) : t[n] # "\n" THEN <<t>>
  ELSE LET n == CHOOSE m \in 1..Len(t) :
                  t[m] = "\n" /\ \A k \in 1..(m - 1) : t[k] # "\n"
       IN <<SubSeq(t, 1, n - 1)>> \o SplitLines(SubSeq(t, n + 1, Len(t)))

\* paragraph(Hello), bulletList[item(A), item(B)]
HelloDoc ==
  Parent("doc",
    <<Parent("paragraph", <<TextNode(Hello)>>),
      Parent("bulletList",
        <<Parent("listItem", <<Parent("paragraph", <<TextNode(<<"A">>)>>)>>),
          Parent("listItem", <<Parent("paragraph", <<TextNode(<<"B">>)>>)>>)>>)>>)

\* the status names that hold 'done', 'closed', 'resolved' or 'complete' in
\* any letter case
ClosedNames ==
  {<<"R", "e", "s", "o", "l", "v", "e", "d">>,
   <<"D", "o", "n", "e">>,
   <<"D", "O", "N", "E">>,
   <<"C", "l", "o", "s", "e", "d">>,
   <<"C", "o", "m", "p", "l", "e", "t", "e">>,
   <<"C", "o", "m", "p", "l", "e", "t", "e", "d">>,
   <<"U", "n", "d", "o", "n", "e">>,
   <<"I", "n", "c", "o", "m", "p", "l", "e", "t", "e">>}

\* C29: mapStatus returns the value of the explicit mapping when the status
\* name has an entry; without an entry it returns 'closed' exactly for the
\* names that contain 'done', 'closed', 'resolved' or 'complete' once
\* lower-cased, and 'open' for every other name (Resolved gives closed, In
\* Review gives open).
C29_MapStatus ==
  statusResult \notin {"", "idle"} =>
    /\ statusName \in DOMAIN statusMapping =>
         statusResult = statusMapping[statusName]
    /\ statusName \notin DOMAIN statusMapping =>
         /\ statusResult \in {"open", "closed"}
         /\ statusResult = "closed" <=> statusName \in ClosedNames
    /\ (statusMapping = <<>> /\ statusName = <<"R", "e", "s", "o", "l", "v", "e", "d">>) => statusResult = "closed"
    /\ (statusMapping = <<>> /\ statusName = <<"I", "n", " ", "R", "e", "v", "i", "e", "w">>) => statusResult = "open"

C29_Witness ==
  /\ statusMapping = (<<"R", "e", "s", "o", "l", "v", "e", "d">> :> "open")
  /\ statusName = <<"I", "n", "c", "o", "m", "p", "l", "e", "t", "e">>
  /\ statusResult = "closed"

\* C30: a document of paragraphs and lists (each item holding one line of
\* text) is converted in document order: the result is, block after block,
\* the paragraph's text followed by a blank line, or one line per item
\* prefixed '- ' (bullet list) or 'n. ' with n the item's position from 1
\* (ordered list) followed by a blank line; paragraph(Hello),
\* bulletList[item(A), item(B)] gives the lines 'Hello', '', '- A', '- B'.
C30_DocumentOrder ==
  (adfPc # "toMarkdown"
     /\ \A n \in 1..Len(adfDoc.content) :
          adfDoc.content[n] \in Paragraphs \cup Lists) =>
    /\ adfResult.ok
    /\ adfResult.text =
         join([n \in 1..Len(adfDoc.content) |-> Emitted(adfDoc.content[n])])
    /\ adfDoc = HelloDoc =>
         SplitLines(adfResult.text) =
           <<Hello, <<>>, <<"-", " ", "A">>, <<"-", " ", "B">>, <<>>, <<>>>>

C30_Witness ==
  /\ adfPc = "createIssue"
  /\ Len(adfDoc.content) = 2
  /\ adfDoc.content[1].type = "orderedList"
  /\ Len(adfDoc.content[1].content) = 2
  /\ adfDoc.content[2] = Parent("paragraph", <<TextNode(Hello), HardBreak>>)
  /\ SplitLines(adfResult.text)[2] = <<"2", ".", " ", "A">>
\* the issues of the query result a run is to process: every issue that is
\* not a subtask, every subtask when subtasks are disabled, and with
\* subtasks enabled the subtasks whose status the filter lets through
Kept ==
  {k \in Range(jiraResult) :
     \/ ~IsSubtask(k)
     \/ ~subtasks.enabled
     \/ ~subtasks.hasFilter
     \/ subtasks.filterByStatus = <<>>
     \/ JiraStatus(k) \in Range(subtasks.filterByStatus)}

C32_EmptyInput ==
  (adfPc # "toMarkdown" /\ adfDoc \in EmptyInputs) => adfResult = Ok(<<>>)

C32_Witness ==
  /\ adfPc = "converted"
  /\ adfDoc.type = "undefined"
  /\ adfResult.ok /\ adfResult.text = <<>>
\* C33: a processIssue call that has returned moved processed by one and
\* exactly one of created, skipped and errors by one; between calls
\* processed = created + skipped + errors.
C33_CountersAddUp ==
  /\ pc = "itemDone" =>
       /\ Delta("processed") = 1
       /\ \A f \in {"created", "skipped", "errors"} : Delta(f) \in {0, 1}
       /\ Delta("created") + Delta("skipped") + Delta("errors") = 1
  /\ (pc = "itemDone" \/ InProgress = 0) =>
       stats.processed = stats.created + stats.skipped + stats.errors

C33_Witness ==
  /\ pc = "itemDone"
  /\ Delta("errors") = 1
  /\ stats.processed = 2
  /\ stats.created = 1
  /\ stats.errors = 1
\* C34: one processIssue call creates at most one issue. (In the first run
\* every key is handed to processIssue once, so the issues that carry a key
\* are the ones that call created.)
C34_OneIssuePerCall ==
  run = 1 => \A k \in Keys : Cardinality(IssuesOf(k)) <= 1

\* C35: a key that processIssue recorded as 'error' has no issue created by
\* that call. (First run: the issues that carry the key are that call's.)
C35_ErrorMeansNoIssue ==
  run = 1 =>
    \A k \in Keys : mapping[k].status = "error" => IssuesOf(k) = {}

\* C36: githubClient.createIssue is called for a key only when the search of
\* findExistingIssue for that key succeeded and matched nothing: never after
\* a search that failed.
C36_CreateAfterSearch ==
  pc = "createIssue" =>
    /\ Has(calls, "findExistingIssue")
    /\ existingIssue = 0
    /\ failure # "searchIssues"
\* C37: when generateSummaries asks for summaries, it asks for exactly the
\* issues processIssue will not skip on their record: those with no record
\* and those whose record is 'error'.
C37_SummariesForUnskipped ==
  (pc = "batch" /\ order = <<>>) =>
    Range(issuesToSummarize(jiraIssues, mapping)) =
      {k \in Range(jiraIssues) : ~AlreadyMigrated(mapping[k])}

C39_AllIssuesOnce ==
  pgPc = "returned" => pgAllIssues = ResultList(pgTotal)

\* C40: handleAttachments never raises and emits one reference line per
\* attachment, in input order; under the 'upload' strategy an attachment whose
\* download or upload fails gets a link line to its Jira locator, the
\* attachments after it are still handled, and the item does not end as an
\* error.
C40_AttachmentsBestEffort ==
  /\ atPc # "error"
  /\ Len(atText) = atI
  /\ atPc \in {"returned", "body"} => Len(atText) = Len(atList)
  /\ \A n \in 1..Len(atText) :
       /\ atText[n].filename = atList[n].filename
       /\ (atStrategy = "upload" /\ atList[n].fails # "none")
            => atText[n].url = downloadUrl(atList[n])
       /\ (atStrategy = "upload" /\ atList[n].fails = "none")
            => atText[n].url = browser_download_url(atList[n])
       /\ atStrategy = "link" => atText[n].url = downloadUrl(atList[n])
  /\ atPc = "body" => atCount = Len(atList)

\* an upload run whose first attachment failed and whose later attachment
\* was uploaded, with the body built
C40_Witness ==
  /\ atPc = "body"
  /\ atStrategy = "upload"
  /\ Len(atList) = 3
  /\ atList[1].fails = "download"
  /\ atList[2].fails = "upload"
  /\ atList[3].fails = "none"
  /\ atText[1].note = "From Jira (upload failed)"
  /\ atText[3].url = browser_download_url(atList[3])

====
